---- MODULE Spec2Model ----
(***************************************************************************)
(* Element synchronisation of the shared canvas: the binding-integrity    *)
(* check (validateAndFixBindings), the client scene reconciler            *)
(* (handleWebSocketMessage, loadExistingElements, syncToBackend) and the  *)
(* element store it talks to.                                             *)
(***************************************************************************)
EXTENDS Integers, Sequences, FiniteSets, TLC

VARIABLES
    candidate,  \* validateAndFixBindings: the list handed to the check
    validated,  \* validateAndFixBindings: the list it returned
    vpc,        \* "idle" | "input" | "validated"
    store,      \* the server's element store, in insertion order
    conn,       \* per viewer: is its WebSocket open
    inbox,      \* per viewer: server messages sent and not yet handled
    scene,      \* per viewer: the elements of the local Excalidraw scene
    syncTimer,  \* per viewer: is a debounced auto-sync timer pending
    loadTimer,  \* per viewer: is a loadExistingElements call pending
    applied,    \* per viewer: the message handled last, while the scene is
                \* as that handling left it (history, read by no action)
    repeated,   \* per viewer: was that message also the one handled just
                \* before it (history)
    resync,     \* per viewer: "init" before its first disconnect, "down"
                \* while disconnected since, "up" once reconnected, "moved"
                \* after a mutation that followed the reconnect (history)
    ops,        \* number of mutations, edits and connection changes so far
    now,        \* the client's clock, in seconds
    api,        \* is the excalidrawAPI state set (Excalidraw has mounted)
    isConnected,\* the isConnected state
    socks,      \* the WebSockets created so far, in order of creation;
                \* websocketRef.current is the last one
    timers,     \* the pending setTimeout(connectWebSocket, 3000) calls
    lastDrop,   \* when a socket last closed with a code other than 1000,
                \* -1 before that (history)
    ui,         \* the Ask-Claude state: explanation, error, isAnalyzing, chat
    reqs,       \* the analyze requests sent and not yet settled
    settled,    \* the analyze request that settled last, with its outcome
                \* (history)
    sync,       \* debouncedAutoSync: the clock in half seconds, the pending
                \* timeouts, syncTimeoutRef.current, and the history of the
                \* canvas changes and of the sync requests sent
    clear,      \* clearCanvas: the position of the call in progress, what
                \* the server listed and the DELETE requests issued
    voice,      \* the voice state of the panel: listening, recognition, TTS
    asr,        \* recognition.onresult: the result handled last and the
                \* transcripts auto-submitted for it
    reply,      \* generateActions: the reply of the AI action source
    aiResult,   \* generateActions: what the call returned or threw
    aipc        \* "idle" | "called" | "returned" | "committed" | "rejected"

vvars == <<candidate, validated, vpc>>

svars == <<store, conn, inbox, scene, syncTimer, loadTimer, applied,
           repeated, resync, ops>>

avars == <<reply, aiResult, aipc>>

uvars == <<ui, reqs, settled, sync, clear, voice, asr>>

\* The connection state of the client, without and with its sockets.
tvars == <<now, api, isConnected, timers, lastDrop>>

cvars == <<now, api, isConnected, socks, timers, lastDrop>>

vars == <<candidate, validated, vpc,
          store, conn, inbox, scene, syncTimer, loadTimer, applied,
          repeated, resync, ops,
          now, api, isConnected, socks, timers, lastDrop,
          reply, aiResult, aipc, ui, reqs, settled, sync, clear, voice, asr>>

(***************************************************************************)
(* Elements                                                                *)
(***************************************************************************)

\* A reference that is null, undefined or the empty string (falsy in JS).
NoId == "none"

\* boundElements of an element: null/undefined, another falsy value, a
\* truthy value that is no array, or an array of entries.
NullBound == [kind |-> "null", items |-> <<>>]

ArrayBound(items) == [kind |-> "array", items |-> items]

\* One entry of a boundElements array: obj is FALSE for null or a
\* non-object; id = NoId and type = "none" stand for a missing property.
Binding(id, type) == [obj |-> TRUE, id |-> id, type |-> type]

NotAnObject == [obj |-> FALSE, id |-> NoId, type |-> "none"]

\* ServerElement: val stands for the rendered attributes (x, y, text, ...),
\* meta for the bookkeeping fields (createdAt, updatedAt, version, syncedAt,
\* source, syncTimestamp). startBinding/endBinding are the renderer's
\* resolved arrow bindings.
Element(id, type, val, bound, containerId, start, end) ==
    [id |-> id, type |-> type, val |-> val, meta |-> FALSE,
     boundElements |-> bound, containerId |-> containerId,
     start |-> start, end |-> end,
     startBinding |-> NoId, endBinding |-> NoId]

Plain(id, type) == Element(id, type, 0, NullBound, NoId, NoId, NoId)

\* The entries of a boundElements value (none unless it is an array).
EntriesOf(bound) == IF bound.kind = "array" THEN bound.items ELSE <<>>

\* The ids of a list of elements (the keys of elementMap).
IdsOf(elements) == {elements[i].id : i \in 1..Len(elements)}

(***************************************************************************)
(* validateAndFixBindings                                                  *)
(***************************************************************************)

\* KeepBinding without the elementMap lookup (lines 359-360 left out).
KeepBinding_NoLookup(binding, ids) ==
    /\ binding.obj
    /\ binding.id # NoId
    /\ binding.type # "none"
    /\ binding.type \in {"text", "arrow"}

\* KeepBinding without the binding type test (line 363 left out).
KeepBinding_AnyType(binding, ids) ==
    /\ binding.obj
    /\ binding.id # NoId
    /\ binding.type # "none"
    /\ binding.id \in ids

\* The filter predicate applied to each entry of an array boundElements.
KeepBinding(binding, ids) ==
    /\ binding.obj
    /\ binding.id # NoId
    /\ binding.type # "none"
    /\ binding.id \in ids
    /\ binding.type \in {"text", "arrow"}

FixBoundElements(bound, ids) ==
    IF bound.kind \in {"null", "falsy"}
    THEN bound
    ELSE IF bound.kind = "array"
         THEN LET kept == SelectSeq(bound.items,
                                    LAMBDA b : KeepBinding(b, ids))
              IN  IF Len(kept) = 0 THEN NullBound ELSE ArrayBound(kept)
         ELSE NullBound

FixContainerId(containerId, ids) ==
    IF containerId # NoId /\ containerId \notin ids THEN NoId ELSE containerId

\* Each element checked on its own, not against the whole list.
validateAndFixBindings_PerElement(elements) ==
    [i \in 1..Len(elements) |->
        [elements[i] EXCEPT
            !.boundElements = FixBoundElements(@, {elements[i].id}),
            !.containerId = FixContainerId(@, {elements[i].id})]]

\* A check that keeps a boundElements entry only while the element it
\* names carries a containerId itself.
validateAndFixBindings_Mutual(elements) ==
    LET ids == IdsOf(elements)
        linked == {elements[i].id : i \in {j \in 1..Len(elements) :
                                              elements[j].containerId # NoId}}
    IN  [i \in 1..Len(elements) |->
            [elements[i] EXCEPT
                !.boundElements = FixBoundElements(@, linked),
                !.containerId = FixContainerId(@, ids)]]

\* A check that also clears the start and end that do not resolve.
validateAndFixBindings_FixEndpoints(elements) ==
    LET ids == IdsOf(elements)
    IN  [i \in 1..Len(elements) |->
            [elements[i] EXCEPT
                !.boundElements = FixBoundElements(@, ids),
                !.containerId = FixContainerId(@, ids),
                !.start = IF @ \in ids THEN @ ELSE NoId,
                !.end = IF @ \in ids THEN @ ELSE NoId]]

validateAndFixBindings(elements) ==
    LET ids == IdsOf(elements)
    IN  [i \in 1..Len(elements) |->
            [elements[i] EXCEPT
                !.boundElements = FixBoundElements(@, ids),
                !.containerId = FixContainerId(@, ids)]]

(***************************************************************************)
(* The client scene reconciler                                             *)
(***************************************************************************)

\* A cleaning that copies every field, the bookkeeping fields included.
cleanElementForExcalidraw_KeepAll(element) == element

\* cleanElementForExcalidraw: the bookkeeping fields are left out, every
\* other field is copied.
cleanElementForExcalidraw(element) == [element EXCEPT !.meta = FALSE]

CleanAll(elements) ==
    [i \in 1..Len(elements) |-> cleanElementForExcalidraw(elements[i])]

\* The first element of each id, in order (the converter's element store
\* refuses a second element with an id it already holds).
DedupById(s) ==
    LET F[i \in 0..Len(s)] ==
            IF i = 0 THEN <<>>
            ELSE IF s[i].id \in IdsOf(F[i - 1]) THEN F[i - 1]
                 ELSE Append(F[i - 1], s[i])
    IN  F[Len(s)]

\* A conversion that gives every element a newly generated id.
ConvertOne_RegenerateIds(e) ==
    [e EXCEPT !.id = "generated",
              !.containerId = IF e.type = "text" THEN @ ELSE NoId,
              !.start = NoId, !.end = NoId,
              !.startBinding = NoId, !.endBinding = NoId]

\* The renderer's element built from one skeleton: a containerId is a
\* property of text elements only, and start/end are skeleton properties
\* that the arrow binding pass turns into startBinding/endBinding.
ConvertOne(e) ==
    [e EXCEPT !.containerId = IF e.type = "text" THEN @ ELSE NoId,
              !.start = NoId, !.end = NoId,
              !.startBinding = NoId, !.endBinding = NoId]

HasEntry(bound, id) ==
    \E j \in 1..Len(EntriesOf(bound)) : EntriesOf(bound)[j].id = id

\* One end of arrow number k of acc is bound to the element with id target,
\* if acc holds such an element: the arrow gets the binding and the target
\* an {id, type: "arrow"} entry in boundElements.
BindEnd(acc, k, target, side) ==
    IF target = NoId
       \/ ~\E j \in 1..Len(acc) : acc[j].id = target /\ acc[j].type # "arrow"
    THEN acc
    ELSE [j \in 1..Len(acc) |->
            LET withBinding ==
                    IF j # k THEN acc[j]
                    ELSE IF side = "start"
                         THEN [acc[j] EXCEPT !.startBinding = target]
                         ELSE [acc[j] EXCEPT !.endBinding = target]
            IN  IF acc[j].id = target /\ ~HasEntry(acc[j].boundElements, acc[k].id)
                THEN [withBinding EXCEPT !.boundElements =
                        ArrayBound(Append(EntriesOf(@),
                                          Binding(acc[k].id, "arrow")))]
                ELSE withBinding]

\* convertToExcalidrawElements(elements, {regenerateIds: false}): every
\* element keeps its id; the arrows' start/end are resolved among the
\* elements converted together.
convertToExcalidrawElements(elements) ==
    LET skel == DedupById(elements)
        G[i \in 0..Len(skel)] ==
            IF i = 0 THEN [j \in 1..Len(skel) |-> ConvertOne(skel[j])]
            ELSE IF skel[i].type = "arrow"
                 THEN BindEnd(BindEnd(G[i - 1], i, skel[i].start, "start"),
                              i, skel[i].end, "end")
                 ELSE G[i - 1]
    IN  G[Len(skel)]

\* hasBindings / hasBoundArrows: whether a created element carries a start
\* or an end.
hasBoundArrows(elements) ==
    \E i \in 1..Len(elements) :
        elements[i].start # NoId \/ elements[i].end # NoId

\* What a handler passes to updateScene, given the current scene elements
\* (called = FALSE when it does not call it), how many times it calls it,
\* and the list it handed to convertToExcalidrawElements on the way.
Update(elements, converted) ==
    [called |-> TRUE, calls |-> 1, elements |-> elements,
     converted |-> converted]

NoUpdate ==
    [called |-> FALSE, calls |-> 0, elements |-> <<>>, converted |-> <<>>]

\* Created elements converted on their own whatever they carry.
CreatedScene_Alone(currentElements, cleaned) ==
    Update(currentElements \o convertToExcalidrawElements(cleaned), cleaned)

\* Created elements added to the scene one updateScene call at a time.
CreatedScene_PerElement(currentElements, cleaned) ==
    [Update(IF hasBoundArrows(cleaned)
            THEN convertToExcalidrawElements(currentElements \o cleaned)
            ELSE currentElements \o convertToExcalidrawElements(cleaned),
            IF hasBoundArrows(cleaned) THEN currentElements \o cleaned
            ELSE cleaned)
     EXCEPT !.calls = Len(cleaned)]

\* case "element_created" / "elements_batch_created".
CreatedScene(currentElements, cleaned) ==
    IF hasBoundArrows(cleaned)
    THEN Update(convertToExcalidrawElements(currentElements \o cleaned),
                currentElements \o cleaned)
    ELSE Update(currentElements \o convertToExcalidrawElements(cleaned),
                cleaned)

\* An update that adds the element when the scene has none with its id.
UpdatedScene_Upsert(currentElements, cleaned) ==
    LET converted == convertToExcalidrawElements(cleaned)[1]
    IN  IF converted.id \in IdsOf(currentElements)
        THEN Update([i \in 1..Len(currentElements) |->
                        IF currentElements[i].id = cleaned[1].id
                        THEN converted ELSE currentElements[i]], cleaned)
        ELSE Update(Append(currentElements, converted), cleaned)

\* case "element_updated".
UpdatedScene(currentElements, cleaned) ==
    LET converted == convertToExcalidrawElements(cleaned)[1]
    IN  Update([i \in 1..Len(currentElements) |->
                  IF currentElements[i].id = cleaned[1].id
                  THEN converted ELSE currentElements[i]], cleaned)

\* A handler whose deletion drops the first element of the scene.
handleWebSocketMessage_DeleteFirst(currentElements, data) ==
    CASE data.type = "initial_elements" ->
            IF Len(data.elements) > 0
            THEN LET validatedElements ==
                         validateAndFixBindings(CleanAll(data.elements))
                 IN  Update(convertToExcalidrawElements(validatedElements),
                            validatedElements)
            ELSE NoUpdate
      [] data.type = "element_created" ->
            CreatedScene(currentElements, CleanAll(data.elements))
      [] data.type = "element_updated" ->
            UpdatedScene(currentElements, CleanAll(data.elements))
      [] data.type = "element_deleted" ->
            IF data.elementId # NoId
            THEN Update(IF currentElements = <<>> THEN <<>>
                        ELSE Tail(currentElements), <<>>)
            ELSE NoUpdate
      [] data.type = "elements_batch_created" ->
            CreatedScene(currentElements, CleanAll(data.elements))
      [] data.type = "canvas_cleared" -> Update(<<>>, <<>>)
      [] OTHER -> NoUpdate

handleWebSocketMessage(currentElements, data) ==
    CASE data.type = "initial_elements" ->
            IF Len(data.elements) > 0
            THEN LET validatedElements ==
                         validateAndFixBindings(CleanAll(data.elements))
                 IN  Update(convertToExcalidrawElements(validatedElements),
                            validatedElements)
            ELSE NoUpdate
      [] data.type = "element_created" ->
            CreatedScene(currentElements, CleanAll(data.elements))
      [] data.type = "element_updated" ->
            UpdatedScene(currentElements, CleanAll(data.elements))
      [] data.type = "element_deleted" ->
            IF data.elementId # NoId
            THEN Update(SelectSeq(currentElements,
                                  LAMBDA el : el.id # data.elementId), <<>>)
            ELSE NoUpdate
      [] data.type = "elements_batch_created" ->
            CreatedScene(currentElements, CleanAll(data.elements))
      [] data.type = "canvas_cleared" -> Update(<<>>, <<>>)
      [] OTHER -> NoUpdate

\* loadExistingElements, given the elements GET /api/elements returned.
loadExistingElements(elements) ==
    IF Len(elements) > 0
    THEN Update(convertToExcalidrawElements(CleanAll(elements)),
                CleanAll(elements))
    ELSE NoUpdate

(***************************************************************************)
(* ClaudeVisionService.generateActions                                     *)
(***************************************************************************)

\* A parsed JSON value: null, an array, or an object with or without an
\* explanation and with an actions property that is absent, something
\* other than an array, or an array of items. An item is TRUE when it has
\* the {action, element} shape.
Actions(kind, items) == [kind |-> kind, items |-> items]

JsonNull ==
    [kind |-> "null", explanation |-> FALSE, actions |-> Actions("absent", <<>>)]

JsonArray ==
    [kind |-> "array", explanation |-> FALSE, actions |-> Actions("absent", <<>>)]

JsonObject(explanation, actions) ==
    [kind |-> "object", explanation |-> explanation, actions |-> actions]

\* A piece of the reply text: prose without braces, text in braces that is
\* no JSON, a ``` fence, or the text of a JSON value.
Piece(seg, value) == [seg |-> seg, value |-> value]

JsonText(value) == Piece("json", value)

HasBrace(piece) ==
    \/ piece.seg = "braces"
    \/ piece.seg = "json" /\ piece.value.kind = "object"

IsFence(piece) == piece.seg = "fence"

FencePositions(raw) == {k \in 1..Len(raw) : IsFence(raw[k])}

BracePositions(raw) == {k \in 1..Len(raw) : HasBrace(raw[k])}

Min(S) == CHOOSE x \in S : \A y \in S : x <= y

Max(S) == CHOOSE x \in S : \A y \in S : x >= y

\* extractJSON: the text between the first two fences if there is any,
\* else the text from the first opening to the last closing brace, else
\* the whole text.
extractJSON(raw) ==
    LET fences == FencePositions(raw)
        first == Min(fences)
        second == Min(fences \ {first})
        braces == BracePositions(raw)
    IN  IF Cardinality(fences) >= 2 /\ second > first + 1
        THEN SubSeq(raw, first + 1, second - 1)
        ELSE IF braces # {}
             THEN SubSeq(raw, Min(braces), Max(braces))
             ELSE raw

\* JSON.parse: the value of a text that is one JSON value and nothing
\* else; ok is FALSE where it throws.
JSONparse(text) ==
    IF Len(text) = 1 /\ text[1].seg = "json"
    THEN [ok |-> TRUE, value |-> text[1].value]
    ELSE [ok |-> FALSE, value |-> JsonNull]

Returned(value) ==
    [ok |-> TRUE, error |-> "none", explanation |-> value.explanation,
     actions |-> value.actions.items]

Thrown(error) ==
    [ok |-> FALSE, error |-> error, explanation |-> FALSE, actions |-> <<>>]

\* generateActions without the Array.isArray test (lines 190-192 left out).
generateActions_NoShapeTest(response) ==
    IF ~response.text
    THEN Thrown("Unexpected response type from Claude API")
    ELSE LET parsed == JSONparse(extractJSON(response.raw))
         IN  IF ~parsed.ok THEN Thrown("Claude returned invalid JSON")
             ELSE IF parsed.value.kind = "null" THEN Thrown("TypeError")
             ELSE Returned(parsed.value)

\* generateActions, given the response of the messages API: whether its
\* first content block is text, and that text.
generateActions(response) ==
    IF ~response.text
    THEN Thrown("Unexpected response type from Claude API")
    ELSE LET parsed == JSONparse(extractJSON(response.raw))
         IN  IF ~parsed.ok THEN Thrown("Claude returned invalid JSON")
             ELSE IF parsed.value.kind = "null" THEN Thrown("TypeError")
             ELSE IF parsed.value.actions.kind # "array"
                  THEN Thrown("Claude response missing actions array")
             ELSE Returned(parsed.value)

MaxReply == 3

ActionsMenu ==
    {Actions("absent", <<>>), Actions("other", <<>>), Actions("array", <<>>),
     Actions("array", <<TRUE>>), Actions("array", <<TRUE, FALSE>>),
     Actions("array", <<TRUE, TRUE>>)}

ValueMenu ==
    {JsonNull, JsonArray}
    \cup {JsonObject(e, a) : e \in BOOLEAN, a \in ActionsMenu}

PieceMenu ==
    {Piece("prose", JsonNull), Piece("braces", JsonNull),
     Piece("fence", JsonNull)}
    \cup {JsonText(v) : v \in ValueMenu}

NoResponse == [text |-> FALSE, raw |-> <<>>]

NoResult == Thrown("none")

AiIdle ==
    /\ reply = NoResponse
    /\ aiResult = NoResult
    /\ aipc = "idle"

(***************************************************************************)
(* The analyze request of the Ask-Claude panel (handleSubmit, autoSubmit)  *)
(* and of the App's voice input (autoSubmitVoice).  A string is "absent"   *)
(* (undefined), "empty" or "text"; a string state is "null", "empty" or    *)
(* "text", and the panel renders it only when it is truthy ("text").       *)
(***************************************************************************)

\* What fetch('/api/analyze') came to: net = FALSE when fetch rejected, ok
\* is res.ok, json whether the body parses, explanation and error the
\* body's properties.
Outcome(net, ok, json, explanation, error) ==
    [net |-> net, ok |-> ok, json |-> json, explanation |-> explanation,
     error |-> error]

NetworkError == Outcome(FALSE, FALSE, FALSE, "absent", "absent")

Outcomes ==
    {NetworkError}
    \cup {Outcome(TRUE, ok, FALSE, "absent", "absent") : ok \in BOOLEAN}
    \cup {Outcome(TRUE, ok, TRUE, ex, er) :
             ok \in BOOLEAN, ex \in {"absent", "empty", "text"},
             er \in {"absent", "empty", "text"}}

\* The request failed: a network error or a non-2xx response.
Failed(o) == ~o.net \/ ~o.ok

Paths == {"handleSubmit", "autoSubmit", "autoSubmitVoice",
          "handleSubmit_part_001"}

PanelPaths == Paths \ {"autoSubmitVoice"}

\* The part of a submit function that runs before the fetch is awaited.
BeforeFetch(path, u) ==
    IF path = "autoSubmitVoice"
    THEN [u EXCEPT !.chat = Append(@, "user")]
    ELSE [u EXCEPT !.isAnalyzing = TRUE, !.error = "null",
                   !.explanation = "null"]

\* The panel's try block: the message of the error it throws, "none" when
\* it throws none.
PanelThrows(o) ==
    IF ~o.net THEN "text"
    ELSE IF ~o.ok
         THEN IF o.json /\ o.error # "absent" THEN o.error ELSE "text"
         ELSE IF ~o.json THEN "text" ELSE "none"

\* handleSubmit / autoSubmit after the fetch: explanation ?? 'Done.' is
\* set and spoken, or the error's message is set and spoken; finally
\* isAnalyzing is cleared.
PanelAfterFetch(speaks, u, o) ==
    IF PanelThrows(o) = "none"
    THEN [u EXCEPT !.explanation =
                       IF o.explanation = "absent" THEN "text"
                       ELSE o.explanation,
                   !.spoken = IF speaks THEN "response" ELSE @,
                   !.isAnalyzing = FALSE]
    ELSE [u EXCEPT !.error = PanelThrows(o),
                   !.spoken = IF speaks THEN "error" ELSE @,
                   !.isAnalyzing = FALSE]

\* autoSubmitVoice after the fetch: res.ok is not read; a truthy
\* explanation is added to the chat and spoken; an error is logged.
autoSubmitVoice_AfterFetch(u, o) ==
    IF o.net /\ o.json /\ o.explanation = "text"
    THEN [u EXCEPT !.chat = Append(@, "claude"), !.spoken = "response"]
    ELSE u

AfterFetch(path, u, o) ==
    CASE path = "autoSubmitVoice" -> autoSubmitVoice_AfterFetch(u, o)
      [] path = "handleSubmit_part_001" -> PanelAfterFetch(FALSE, u, o)
      [] OTHER -> PanelAfterFetch(TRUE, u, o)

MaxPending == 2
MaxSubmits == 2

Request(path, overlapped) == [path |-> path, overlapped |-> overlapped]

NoSettled == [path |-> "none", overlapped |-> FALSE, outcome |-> NetworkError,
              chat |-> 0]

PanelIdle ==
    /\ ui = [explanation |-> "null", error |-> "null", isAnalyzing |-> FALSE,
             spoken |-> "none", chat |-> <<>>, submits |-> 0]
    /\ reqs = <<>>
    /\ settled = NoSettled

\* A prompt is submitted: by the panel's button or Ctrl+Enter, which are
\* disabled while isAnalyzing, or by a final voice transcript.
Submit(path) ==
    /\ ui.submits < MaxSubmits
    /\ Len(reqs) < MaxPending
    /\ path \in {"handleSubmit", "handleSubmit_part_001"} => ~ui.isAnalyzing
    /\ ui' = [BeforeFetch(path, ui) EXCEPT !.submits = @ + 1]
    /\ reqs' = Append([k \in 1..Len(reqs) |->
                          [reqs[k] EXCEPT !.overlapped = TRUE]],
                      Request(path, reqs # <<>>))
    /\ UNCHANGED <<settled, sync, clear, voice, asr, svars, cvars, vvars,
                 avars>>

\* The fetch of request number k settles with outcome o.
Settle(k, o) ==
    /\ k \in 1..Len(reqs)
    /\ ui' = AfterFetch(reqs[k].path, ui, o)
    /\ reqs' = SubSeq(reqs, 1, k - 1) \o SubSeq(reqs, k + 1, Len(reqs))
    /\ settled' = [path |-> reqs[k].path, overlapped |-> reqs[k].overlapped,
                   outcome |-> o, chat |-> Len(ui.chat)]
    /\ UNCHANGED <<sync, clear, voice, asr, svars, cvars, vvars, avars>>

(***************************************************************************)
(* handleCanvasChange -> debouncedAutoSync -> syncToBackend, with a clock  *)
(* that counts half seconds.                                               *)
(***************************************************************************)

\* setTimeout(..., 1000), in half seconds.
DebounceDelay == 2

MaxChanges == 3
MaxClock == 5

\* A pending timeout: the number of the change that set it, when it is
\* due, and whether the render whose syncToBackend it calls had
\* excalidrawAPI set.
Timeout(id, due, hasApi) == [id |-> id, due |-> due, api |-> hasApi]

DebounceIdle ==
    sync = [clock |-> 0, pending |-> <<>>, ref |-> 0, changes |-> <<>>,
            sent |-> <<>>]

\* clearTimeout(id): the pending timeout with that id, if any, is removed.
clearTimeout(pending, id) == SelectSeq(pending, LAMBDA t : t.id # id)

\* A debouncedAutoSync that sets its timeout without clearing the one
\* pending.
debouncedAutoSync_NoClear(sy, hasApi) ==
    LET id == Len(sy.changes) + 1
    IN  [sy EXCEPT
            !.pending = Append(sy.pending,
                               Timeout(id, sy.clock + DebounceDelay, hasApi)),
            !.ref = id,
            !.changes = Append(@, [at |-> sy.clock, api |-> hasApi])]

\* debouncedAutoSync, called from a render whose excalidrawAPI is set or
\* not: the timeout in syncTimeoutRef.current is cleared and a new one set.
debouncedAutoSync(sy, hasApi) ==
    LET id == Len(sy.changes) + 1
        kept == IF sy.ref # 0 THEN clearTimeout(sy.pending, sy.ref)
                ELSE sy.pending
    IN  [sy EXCEPT
            !.pending = Append(kept,
                               Timeout(id, sy.clock + DebounceDelay, hasApi)),
            !.ref = id,
            !.changes = Append(@, [at |-> sy.clock, api |-> hasApi])]

\* Excalidraw calls onChange (handleCanvasChange), which it does once it
\* has handed over its API; a timeout that is due has run before it.
CanvasChange ==
    /\ api
    /\ Len(sync.changes) < MaxChanges
    /\ \A k \in 1..Len(sync.pending) : sync.pending[k].due > sync.clock
    /\ sync' = debouncedAutoSync(sync, api)
    /\ UNCHANGED <<ui, reqs, settled, clear, voice, asr, svars, cvars, vvars,
                 avars>>

\* A timeout runs: syncToBackend, which returns at once when its
\* excalidrawAPI is null and else sends POST /api/elements/sync.
TimeoutRuns(k) ==
    /\ k \in 1..Len(sync.pending)
    /\ sync.pending[k].due <= sync.clock
    /\ sync' = [sync EXCEPT
                   !.pending = SubSeq(@, 1, k - 1)
                               \o SubSeq(@, k + 1, Len(@)),
                   !.sent = IF sync.pending[k].api
                            THEN Append(@, sync.clock) ELSE @]
    /\ UNCHANGED <<ui, reqs, settled, clear, voice, asr, svars, cvars, vvars,
                 avars>>

\* Half a second passes; a timeout that is due runs first.
HalfSecond ==
    /\ sync.clock < MaxClock
    /\ \A k \in 1..Len(sync.pending) : sync.pending[k].due > sync.clock
    /\ sync' = [sync EXCEPT !.clock = @ + 1]
    /\ UNCHANGED <<ui, reqs, settled, clear, voice, asr, svars, cvars, vvars,
                 avars>>

(***************************************************************************)
(* clearCanvas and the voice state, before their first use.               *)
(***************************************************************************)

\* No clearCanvas call has been made.
ClearIdle ==
    clear = [pc |-> "idle", v |-> "A", listOk |-> FALSE, listed |-> {},
             issued |-> {}, arrived |-> {}, runs |-> 0]

\* The two components with a microphone: the ClaudePanel and the App.
Components == {"panel", "app"}

\* The voice state of a component after its first render: refs and state
\* false, no recognition created, nothing spoken, no request in flight.
VoiceStart(c) ==
    [comp |-> c, listening |-> FALSE, speakingRef |-> FALSE,
     isSpeaking |-> FALSE, tts |-> "idle", onDone |-> FALSE,
     recs |-> <<>>, pending |-> <<>>]

VoiceIdle == voice = VoiceStart("panel")

(***************************************************************************)
(* shouldSubmit and recognition.onresult. A transcript is a sequence of   *)
(* characters.                                                             *)
(***************************************************************************)

\* The filler words, as character sequences.
FILLER_WORDS ==
    {<<"u", "m">>, <<"u", "h">>, <<"h", "m", "m">>, <<"h", "m">>,
     <<"a", "h">>, <<"e", "r">>, <<"o", "k", "a", "y">>, <<"o", "k">>,
     <<"m", "h", "m">>, <<"m", "m", "m">>, <<"m", "m">>,
     <<"y", "e", "a", "h">>, <<"y", "e", "p">>, <<"n", "o", "p", "e">>}

MIN_MEANINGFUL_WORDS == 2

\* The characters transcripts are made of: a space, lower-case and
\* upper-case letters of a filler word, and a letter of no filler word.
Chars == {" ", "u", "m", "U", "x"}

MaxText == 6

IsSpace(c) == c = " "

\* String.prototype.trim.
trim(t) ==
    LET solid == {i \in 1..Len(t) : ~IsSpace(t[i])}
    IN  IF solid = {} THEN <<>>
        ELSE SubSeq(t, CHOOSE i \in solid : \A j \in solid : i <= j,
                       CHOOSE i \in solid : \A j \in solid : i >= j)

\* String.prototype.toLowerCase.
toLowerCase(t) ==
    [i \in 1..Len(t) |->
        CASE t[i] = "U" -> "u" [] t[i] = "M" -> "m" [] OTHER -> t[i]]

\* split(/\s+/).filter(Boolean): the pieces between runs of white space,
\* the empty ones dropped.
SplitWords(t) ==
    LET F[i \in 0..Len(t)] ==
            IF i = 0 THEN [words |-> <<>>, cur |-> <<>>]
            ELSE IF IsSpace(t[i])
                 THEN [words |-> IF F[i - 1].cur = <<>> THEN F[i - 1].words
                                 ELSE Append(F[i - 1].words, F[i - 1].cur),
                       cur |-> <<>>]
                 ELSE [words |-> F[i - 1].words,
                       cur |-> Append(F[i - 1].cur, t[i])]
        last == F[Len(t)]
    IN  IF last.cur = <<>> THEN last.words ELSE Append(last.words, last.cur)

\* A shouldSubmit that compares the words as they were said.
shouldSubmit_CaseSensitive(text) ==
    LET words == SplitWords(trim(text))
        meaningful == SelectSeq(words, LAMBDA w : w \notin FILLER_WORDS)
    IN  Len(meaningful) >= MIN_MEANINGFUL_WORDS

shouldSubmit(text) ==
    LET words == SplitWords(toLowerCase(trim(text)))
        meaningful == SelectSeq(words, LAMBDA w : w \notin FILLER_WORDS)
    IN  Len(meaningful) >= MIN_MEANINGFUL_WORDS

\* onresult for one result of the event: the transcripts autoSubmit is
\* called with.
onresult(text, isFinal) ==
    IF isFinal
    THEN LET trimmed == trim(text)
         IN  IF trimmed # <<>> /\ shouldSubmit(trimmed)
             THEN <<trimmed>> ELSE <<>>
    ELSE <<>>

AsrResult(text, isFinal, handled, submitted) ==
    [text |-> text, isFinal |-> isFinal, handled |-> handled,
     submitted |-> submitted]

AsrIdle == asr = AsrResult(<<>>, FALSE, FALSE, <<>>)

(***************************************************************************)
(* Candidate lists for the check: one element with every combination of   *)
(* boundElements, containerId and start/end, placed among plain elements. *)
(***************************************************************************)

MaxBound == 2
MaxLen == 2

RefIds == {"a", "b", NoId}

EntryMenu ==
    {Binding(i, t) : i \in RefIds, t \in {"text", "arrow", "frame", "none"}}
    \cup {NotAnObject}

RECURSIVE SeqsUpTo(_, _)
SeqsUpTo(S, n) ==
    IF n = 0 THEN {<<>>}
    ELSE LET shorter == SeqsUpTo(S, n - 1)
         IN  shorter \cup
             {Append(s, x) : s \in {t \in shorter : Len(t) = n - 1}, x \in S}

BoundMenu ==
    {NullBound, [kind |-> "falsy", items |-> <<>>],
     [kind |-> "other", items |-> <<>>]}
    \cup {ArrayBound(s) : s \in SeqsUpTo(EntryMenu, MaxBound)}

EndpointMenu ==
    {<<NoId, NoId>>, <<"b", NoId>>, <<NoId, "b">>, <<"a", "b">>}

Subject(be, c, se) ==
    Element("a", IF se = <<NoId, NoId>> THEN "rectangle" ELSE "arrow",
            0, be, c, se[1], se[2])

\* The other elements of the list: a sub-list of <<b, c>>.
Contexts ==
    {s \in {<<>>, <<Plain("b", "rectangle")>>, <<Plain("c", "text")>>,
            <<Plain("b", "rectangle"), Plain("c", "text")>>} :
        Len(s) < MaxLen}

InsertAt(s, k, x) == SubSeq(s, 1, k) \o <<x>> \o SubSeq(s, k + 1, Len(s))

Viewers == {"A", "B"}

\* A WebSocketMessage.
Msg(type, elements, elementId) ==
    [type |-> type, elements |-> elements, elementId |-> elementId]

NoMsg == Msg("none", <<>>, NoId)

\* The state of the sync engine before any viewer has connected.
InitSync ==
    /\ store = <<>>
    /\ conn = [v \in Viewers |-> FALSE]
    /\ inbox = [v \in Viewers |-> <<>>]
    /\ scene = [v \in Viewers |-> <<>>]
    /\ syncTimer = [v \in Viewers |-> FALSE]
    /\ loadTimer = [v \in Viewers |-> FALSE]
    /\ applied = [v \in Viewers |-> NoMsg]
    /\ repeated = [v \in Viewers |-> FALSE]
    /\ resync = [v \in Viewers |-> "init"]
    /\ ops = 0
    /\ now = 0
    /\ api = FALSE
    /\ isConnected = FALSE
    /\ timers = <<>>
    /\ lastDrop = -1

InitV ==
    /\ InitSync
    /\ AiIdle
    /\ PanelIdle
    /\ DebounceIdle
    /\ ClearIdle
    /\ VoiceIdle
    /\ AsrIdle
    /\ socks = <<>>
    /\ \E be \in BoundMenu, c \in RefIds, se \in EndpointMenu, ctx \in Contexts :
          \E k \in 0..Len(ctx) :
              candidate = InsertAt(ctx, k, Subject(be, c, se))
    /\ validated = <<>>
    /\ vpc = "input"

Validate ==
    /\ vpc = "input"
    /\ validated' = validateAndFixBindings(candidate)
    /\ vpc' = "validated"
    /\ UNCHANGED <<candidate, svars, cvars, avars, uvars>>

NextV == Validate

SpecV == InitV /\ [][NextV]_vars

(***************************************************************************)
(* The element store and the broadcast hub                                 *)
(***************************************************************************)

MaxOps == 3
MaxQueue == 2

\* The store's record of an element carries the bookkeeping fields.
Stamp(e) == [e EXCEPT !.meta = TRUE]

\* put: inserts, or replaces the record with the same id.
StorePut(st, e) ==
    IF e.id \in IdsOf(st)
    THEN [i \in 1..Len(st) |-> IF st[i].id = e.id THEN e ELSE st[i]]
    ELSE Append(st, e)

RECURSIVE StorePutAll(_, _)
StorePutAll(st, es) ==
    IF es = <<>> THEN st ELSE StorePutAll(StorePut(st, Head(es)), Tail(es))

\* The records committed for a batch: the batch is checked together with
\* the elements already in the store.
Committed(st, batch) ==
    LET fixed == validateAndFixBindings(st \o batch)
    IN  [i \in 1..Len(batch) |-> Stamp(fixed[Len(st) + i])]

\* Elements a mutation request may carry.
CreateMenu ==
    {Plain("a", "rectangle"),
     Element("a", "rectangle", 0, ArrayBound(<<Binding("b", "text")>>),
             NoId, NoId, NoId),
     Element("b", "text", 0, NullBound, "a", NoId, NoId),
     Element("b", "arrow", 0, NullBound, NoId, "a", NoId)}

UpdateMenu == {[e EXCEPT !.val = 1] : e \in CreateMenu}

BatchMenu ==
    {<<Plain("a", "rectangle"),
       Element("b", "text", 0, NullBound, "a", NoId, NoId)>>,
     <<Plain("a", "rectangle"),
       Element("b", "arrow", 0, NullBound, NoId, "a", NoId)>>}

\* The id Excalidraw gives an element the user of a viewer draws.
LocalId(v) == IF v = "A" THEN "c" ELSE "d"

\* History: a mutation has followed the reconnect of the viewers that
\* had reconnected.
Mutated ==
    resync' = [v \in Viewers |->
                 IF resync[v] = "up" THEN "moved" ELSE resync[v]]

CanBroadcast ==
    /\ \A v \in Viewers : conn[v] => Len(inbox[v]) < MaxQueue
    /\ \A i \in 1..Len(socks) :
          socks[i].state = "open" => Len(socks[i].inbox) < MaxQueue

\* Fan-out of one event to every connected channel.
Broadcast(msg) ==
    /\ inbox' = [v \in Viewers |->
                   IF conn[v] THEN Append(inbox[v], msg) ELSE inbox[v]]
    /\ socks' = [i \in 1..Len(socks) |->
                   IF socks[i].state = "open"
                   THEN [socks[i] EXCEPT !.inbox = Append(@, msg)]
                   ELSE socks[i]]

SrvCreate(e) ==
    /\ ops < MaxOps
    /\ CanBroadcast
    /\ e.id \notin IdsOf(store)
    /\ LET rec == Committed(store, <<e>>)[1]
       IN  /\ store' = StorePut(store, rec)
           /\ Broadcast(Msg("element_created", <<rec>>, NoId))
    /\ ops' = ops + 1
    /\ Mutated
    /\ UNCHANGED <<conn, scene, syncTimer, loadTimer, applied, repeated, vvars,
                 tvars, avars, uvars>>

SrvUpdate(e) ==
    /\ ops < MaxOps
    /\ CanBroadcast
    /\ e.id \in IdsOf(store)
    /\ LET rec == Committed(store, <<e>>)[1]
       IN  /\ store' = StorePut(store, rec)
           /\ Broadcast(Msg("element_updated", <<rec>>, NoId))
    /\ ops' = ops + 1
    /\ Mutated
    /\ UNCHANGED <<conn, scene, syncTimer, loadTimer, applied, repeated, vvars,
                 tvars, avars, uvars>>

\* delete: the record is removed and the references of the remaining
\* records are checked again in the same commit.
SrvDelete(id) ==
    /\ ops < MaxOps
    /\ CanBroadcast
    /\ id \in IdsOf(store)
    /\ store' = validateAndFixBindings(
                   SelectSeq(store, LAMBDA el : el.id # id))
    /\ Broadcast(Msg("element_deleted", <<>>, id))
    /\ ops' = ops + 1
    /\ Mutated
    /\ UNCHANGED <<conn, scene, syncTimer, loadTimer, applied, repeated, vvars,
                 tvars, avars, uvars>>

SrvBatch(batch) ==
    /\ ops < MaxOps
    /\ CanBroadcast
    /\ IdsOf(batch) \cap IdsOf(store) = {}
    /\ LET recs == Committed(store, batch)
       IN  /\ store' = StorePutAll(store, recs)
           /\ Broadcast(Msg("elements_batch_created", recs, NoId))
    /\ ops' = ops + 1
    /\ Mutated
    /\ UNCHANGED <<conn, scene, syncTimer, loadTimer, applied, repeated, vvars,
                 tvars, avars, uvars>>

SrvClear ==
    /\ ops < MaxOps
    /\ CanBroadcast
    /\ store # <<>>
    /\ store' = <<>>
    /\ Broadcast(Msg("canvas_cleared", <<>>, NoId))
    /\ ops' = ops + 1
    /\ Mutated
    /\ UNCHANGED <<conn, scene, syncTimer, loadTimer, applied, repeated, vvars,
                 tvars, avars, uvars>>

\* POST /api/elements/sync: the store's content is replaced by the
\* elements of the request.
SyncStore(elements) ==
    StorePutAll(<<>>, [i \in 1..Len(elements) |-> Stamp(elements[i])])

(***************************************************************************)
(* A viewer                                                                *)
(***************************************************************************)

\* A sync request that carries only the most recently added element.
syncToBackend_NewestOnly(currentElements) ==
    IF currentElements = <<>> THEN <<>>
    ELSE <<currentElements[Len(currentElements)]>>

\* syncToBackend: the elements of the request body, which are all the
\* scene elements (getSceneElements holds no deleted one), each copied
\* field by field by convertToBackendFormat.
syncToBackend(currentElements) == currentElements

\* connectWebSocket and the socket's onopen: the hub sends the snapshot,
\* the client schedules loadExistingElements.
Connect(v) ==
    /\ ~conn[v]
    /\ conn' = [conn EXCEPT ![v] = TRUE]
    /\ inbox' = [inbox EXCEPT ![v] = <<Msg("initial_elements", store, NoId)>>]
    /\ loadTimer' = [loadTimer EXCEPT ![v] = TRUE]
    /\ resync' = [resync EXCEPT ![v] = IF @ = "down" THEN "up" ELSE @]
    /\ UNCHANGED <<store, scene, syncTimer, applied, repeated, ops, vvars, cvars, avars, uvars>>

\* The socket closes; what was sent to it and not handled is lost.
Disconnect(v) ==
    /\ ops < MaxOps
    /\ conn[v]
    /\ conn' = [conn EXCEPT ![v] = FALSE]
    /\ inbox' = [inbox EXCEPT ![v] = <<>>]
    /\ ops' = ops + 1
    /\ resync' = [resync EXCEPT ![v] = "down"]
    /\ UNCHANGED <<store, scene, syncTimer, loadTimer, applied, repeated, vvars, cvars, avars, uvars>>

\* excalidrawAPI.updateScene followed by Excalidraw's onChange, which is
\* handleCanvasChange -> debouncedAutoSync: the timer is (re)started.
ApplyUpdate(v, r) ==
    /\ scene' = [scene EXCEPT ![v] = IF r.called THEN r.elements ELSE @]
    /\ syncTimer' = [syncTimer EXCEPT ![v] = @ \/ r.called]

\* onmessage: the oldest message is handled.
Deliver(v) ==
    /\ inbox[v] # <<>>
    /\ ApplyUpdate(v, handleWebSocketMessage(scene[v], Head(inbox[v])))
    /\ inbox' = [inbox EXCEPT ![v] = Tail(@)]
    /\ applied' = [applied EXCEPT ![v] = Head(inbox[v])]
    /\ repeated' = [repeated EXCEPT ![v] = (Head(inbox[v]) = applied[v])]
    /\ UNCHANGED <<store, conn, loadTimer, resync, ops, vvars, cvars, avars, uvars>>

\* loadExistingElements runs: GET /api/elements and its result applied.
Load(v) ==
    /\ loadTimer[v]
    /\ ApplyUpdate(v, loadExistingElements(store))
    /\ loadTimer' = [loadTimer EXCEPT ![v] = FALSE]
    /\ applied' = [applied EXCEPT ![v] = NoMsg]
    /\ repeated' = [repeated EXCEPT ![v] = FALSE]
    /\ UNCHANGED <<store, conn, inbox, resync, ops, vvars, cvars, avars, uvars>>

\* The user draws an element, or erases the element drawn; Excalidraw
\* calls onChange.
LocalEdit(v) ==
    /\ ops < MaxOps
    /\ \/ /\ LocalId(v) \notin IdsOf(scene[v])
          /\ scene' = [scene EXCEPT
                         ![v] = Append(@, Plain(LocalId(v), "rectangle"))]
       \/ \E k \in 1..Len(scene[v]) :
            /\ scene[v][k].id = LocalId(v)
            /\ scene' = [scene EXCEPT
                          ![v] = SubSeq(@, 1, k - 1) \o SubSeq(@, k + 1, Len(@))]
    /\ syncTimer' = [syncTimer EXCEPT ![v] = TRUE]
    /\ applied' = [applied EXCEPT ![v] = NoMsg]
    /\ repeated' = [repeated EXCEPT ![v] = FALSE]
    /\ resync' = [resync EXCEPT ![v] = IF @ = "up" THEN "moved" ELSE @]
    /\ ops' = ops + 1
    /\ UNCHANGED <<store, conn, inbox, loadTimer, vvars, cvars, avars, uvars>>

\* An element that refers to no other and that no other refers to.
Unbound(elements, k) ==
    /\ elements[k] = [Plain(elements[k].id, elements[k].type) EXCEPT
                          !.val = elements[k].val, !.meta = elements[k].meta]
    /\ \A i \in 1..Len(elements) :
          /\ ~HasEntry(elements[i].boundElements, elements[k].id)
          /\ elements[k].id \notin
                {elements[i].containerId, elements[i].startBinding,
                 elements[i].endBinding}

\* The user erases an unbound element that came from the server.
LocalErase(v) ==
    /\ ops < MaxOps
    /\ \E k \in 1..Len(scene[v]) :
          /\ scene[v][k].id # LocalId(v)
          /\ Unbound(scene[v], k)
          /\ scene' = [scene EXCEPT
                        ![v] = SubSeq(@, 1, k - 1) \o SubSeq(@, k + 1, Len(@))]
    /\ syncTimer' = [syncTimer EXCEPT ![v] = TRUE]
    /\ applied' = [applied EXCEPT ![v] = NoMsg]
    /\ repeated' = [repeated EXCEPT ![v] = FALSE]
    /\ resync' = [resync EXCEPT ![v] = IF @ = "up" THEN "moved" ELSE @]
    /\ ops' = ops + 1
    /\ UNCHANGED <<store, conn, inbox, loadTimer, vvars, cvars, avars, uvars>>

\* The debounce timer fires: syncToBackend posts the scene elements to
\* /api/elements/sync, which replaces the store's content with them.
AutoSync(v) ==
    /\ syncTimer[v]
    /\ CanBroadcast
    /\ store' = SyncStore(syncToBackend(scene[v]))
    /\ Broadcast(Msg("elements_synced", <<>>, NoId))
    /\ syncTimer' = [syncTimer EXCEPT ![v] = FALSE]
    /\ Mutated
    /\ UNCHANGED <<conn, scene, loadTimer, applied, repeated, ops, vvars,
                 tvars, avars, uvars>>

(***************************************************************************)
(* clearCanvas: GET /api/elements, one DELETE per listed element, then    *)
(* the local scene is emptied.                                             *)
(***************************************************************************)

MaxClears == 2

\* How the listing ends: fetch or response.json() throws, the response
\* is not { success, elements }, or the elements are listed.
ListOutcomes == {"throws", "unsuccessful", "listed"}

\* result.elements.map(... fetch DELETE ...): the ids DELETE is sent for.
DeleteRequests_First(elements) ==
    IF elements = <<>> THEN {} ELSE {elements[1].id}

DeleteRequests(elements) == IdsOf(elements)

\* excalidrawAPI.updateScene({ elements: [] }), in the try block or in the
\* catch block; Excalidraw calls onChange.
ClearScene(v) ==
    /\ ApplyUpdate(v, Update(<<>>, <<>>))
    /\ applied' = [applied EXCEPT ![v] = NoMsg]
    /\ repeated' = [repeated EXCEPT ![v] = FALSE]
    /\ resync' = [resync EXCEPT ![v] = IF @ = "up" THEN "moved" ELSE @]

\* The Clear button: clearCanvas starts and sends GET /api/elements.
ClearStart(v) ==
    /\ clear.pc \in {"idle", "done"}
    /\ clear.runs < MaxClears
    /\ clear' = [pc |-> "listing", v |-> v, listOk |-> FALSE, listed |-> {},
                 issued |-> {}, arrived |-> {}, runs |-> clear.runs + 1]
    /\ UNCHANGED <<ui, reqs, settled, sync, voice, asr, svars, cvars, vvars,
                 avars>>

\* The listing ends. When it throws, the catch block empties the scene;
\* when it is unsuccessful, no DELETE is sent and the scene is emptied;
\* when it lists the store's elements, a DELETE is sent for each.
ClearListed(o) ==
    /\ clear.pc = "listing"
    /\ IF o = "listed"
       THEN /\ clear' = [clear EXCEPT !.pc = "deleting", !.listOk = TRUE,
                                      !.listed = IdsOf(store),
                                      !.issued = DeleteRequests(store)]
            /\ UNCHANGED <<scene, syncTimer, applied, repeated, resync>>
       ELSE /\ clear' = [clear EXCEPT !.pc = "done"]
            /\ ClearScene(clear.v)
    /\ UNCHANGED <<ui, reqs, settled, sync, voice, asr, store, conn, inbox,
                 loadTimer, ops, vvars, cvars, avars>>

\* The server handles one of the DELETE requests: the record, if still
\* there, is removed as by any delete.
ClearDeleteArrives(id) ==
    /\ id \in clear.issued \ clear.arrived
    /\ clear' = [clear EXCEPT !.arrived = @ \cup {id}]
    /\ IF id \in IdsOf(store)
       THEN /\ CanBroadcast
            /\ store' = validateAndFixBindings(
                           SelectSeq(store, LAMBDA el : el.id # id))
            /\ Broadcast(Msg("element_deleted", <<>>, id))
            /\ Mutated
       ELSE UNCHANGED <<store, inbox, socks, resync>>
    /\ UNCHANGED <<ui, reqs, settled, sync, voice, asr, conn, scene, syncTimer,
                 loadTimer, applied, repeated, ops, vvars, tvars, avars>>

\* Promise.all settles: it resolves when every DELETE has been answered
\* and rejects as soon as one fetch rejects; either way the scene is
\* emptied, in the try block or in the catch block.
ClearSettles(rejected) ==
    /\ clear.pc = "deleting"
    /\ ~rejected => clear.arrived = clear.issued
    /\ rejected => clear.issued # {}
    /\ clear' = [clear EXCEPT !.pc = "done"]
    /\ ClearScene(clear.v)
    /\ UNCHANGED <<ui, reqs, settled, sync, voice, asr, store, conn, inbox,
                 loadTimer, ops, vvars, cvars, avars>>

NextClear ==
    \/ \E e \in CreateMenu : SrvCreate(e)
    \/ Connect("A")
    \/ Deliver("A")
    \/ LocalEdit("A")
    \/ ClearStart("A")
    \/ \E o \in ListOutcomes : ClearListed(o)
    \/ \E id \in {"a", "b"} : ClearDeleteArrives(id)
    \/ \E rejected \in BOOLEAN : ClearSettles(rejected)

(***************************************************************************)
(* Voice: speech recognition sessions, the analyze requests of voice and  *)
(* manual submits, and TTS. window.SpeechRecognition and a TTS engine are *)
(* present (hasSpeech and hasTTS are true).                                *)
(***************************************************************************)

MaxRecs == 2
MaxVoicePending == 2

\* A SpeechRecognition object: "running" after start(), "stopping" after
\* stop() until its end event, "errored" after its error event until the
\* end event that follows it, "ended" after the end event; timer: is a
\* setTimeout(() => recognition.start(), 300) pending.
Recognition(state, timer) == [state |-> state, timer |-> timer]

\* recognition.start(): a session that has ended starts again; on any
\* other it throws InvalidStateError and changes nothing.
start(r) == IF r.state = "ended" THEN [r EXCEPT !.state = "running"] ELSE r

\* recognition.stop(): a running session is asked to stop.
stop(r) == IF r.state = "running" THEN [r EXCEPT !.state = "stopping"] ELSE r

\* recognitionRef.current?.stop() and recognitionRef.current.start(): the
\* ref holds the recognition created last.
StopCurrent(recs) ==
    IF recs = <<>> THEN recs ELSE [recs EXCEPT ![Len(recs)] = stop(@)]

StartCurrent(recs) ==
    IF recs = <<>> THEN recs ELSE [recs EXCEPT ![Len(recs)] = start(@)]

\* restartIfNeeded, and the same test in stopSpeaking.
restartIfNeeded(vo) ==
    IF vo.listening /\ vo.recs # <<>>
    THEN [vo EXCEPT !.recs = StartCurrent(@)]
    ELSE vo

\* recognition.onend without the test of isSpeakingRef.
onend_WhileSpeaking(vo, i) ==
    LET ended == [vo EXCEPT !.recs[i].state = "ended"]
    IN  IF vo.listening
        THEN [ended EXCEPT !.recs[i] = start(@)]
        ELSE ended

\* recognition.onend of recognition i, run when its end event fires.
onend(vo, i) ==
    LET ended == [vo EXCEPT !.recs[i].state = "ended"]
    IN  IF vo.listening /\ ~vo.speakingRef
        THEN [ended EXCEPT !.recs[i] = start(@)]
        ELSE ended

\* recognition.onerror of recognition i, run when its error event fires.
onerror(vo, i) ==
    LET errored == [vo EXCEPT !.recs[i].state = "errored"]
    IN  IF vo.listening /\ ~vo.speakingRef
        THEN [errored EXCEPT !.recs[i].timer = TRUE]
        ELSE errored

\* speakResponse(text, onDone): the utterance replaces the one playing.
speakResponse(vo, restart) ==
    [vo EXCEPT !.speakingRef = TRUE, !.isSpeaking = TRUE,
               !.tts = "playing", !.onDone = restart]

\* handleEnd, the onend / onerror callback of the utterance.
handleEnd(vo) ==
    LET done == [vo EXCEPT !.speakingRef = FALSE, !.isSpeaking = FALSE,
                           !.tts = "idle", !.onDone = FALSE]
    IN  IF vo.onDone THEN restartIfNeeded(done) ELSE done

\* stopSpeaking.
stopSpeaking(vo) ==
    restartIfNeeded([vo EXCEPT !.speakingRef = FALSE, !.isSpeaking = FALSE,
                               !.tts = "idle", !.onDone = FALSE])

\* toggleListening.
toggleListening(vo) ==
    IF vo.listening
    THEN [vo EXCEPT !.listening = FALSE, !.recs = StopCurrent(@)]
    ELSE [vo EXCEPT !.listening = TRUE,
                    !.recs = Append(@, Recognition("running", FALSE))]

\* autoSubmit / autoSubmitVoice up to the fetch: with listening on,
\* isSpeakingRef is set and the current recognition stopped.
autoSubmit(vo) ==
    LET paused == IF vo.listening
                  THEN [vo EXCEPT !.speakingRef = TRUE,
                                  !.recs = StopCurrent(@)]
                  ELSE vo
    IN  [paused EXCEPT
            !.pending = Append(@, [voice |-> TRUE,
                                   wasListening |-> vo.listening])]

\* handleSubmit up to the fetch: recognition is left as it is.
handleSubmit(vo) ==
    [vo EXCEPT !.pending = Append(@, [voice |-> FALSE,
                                      wasListening |-> FALSE])]

\* What follows the fetch of request rq. The panel speaks the response or
\* the error; the App speaks a truthy explanation and else, when it had
\* paused recognition, clears isSpeakingRef and restarts it.
afterFetch(vo, rq, speaks) ==
    IF speaks
    THEN speakResponse(vo, rq.voice /\ rq.wasListening)
    ELSE IF rq.wasListening
         THEN restartIfNeeded([vo EXCEPT !.speakingRef = FALSE])
         ELSE vo

VoiceStep(next) ==
    /\ voice' = next
    /\ UNCHANGED <<ui, reqs, settled, sync, clear, asr, svars, cvars, vvars,
                 avars>>

\* The mic button or the M key.
ToggleListening ==
    /\ voice.listening \/ Len(voice.recs) < MaxRecs
    /\ VoiceStep(toggleListening(voice))

\* onresult with a final transcript that passes shouldSubmit.
FinalResult(i) ==
    /\ i \in 1..Len(voice.recs)
    /\ voice.recs[i].state \in {"running", "stopping"}
    /\ Len(voice.pending) < MaxVoicePending
    /\ VoiceStep(autoSubmit(voice))

\* The panel's submit button or Ctrl+Enter, enabled while no request is
\* in flight.
ManualSubmit ==
    /\ voice.comp = "panel"
    /\ voice.pending = <<>>
    /\ VoiceStep(handleSubmit(voice))

\* The fetch of request k settles.
Respond(k, speaks) ==
    /\ k \in 1..Len(voice.pending)
    /\ voice.comp = "panel" => speaks
    /\ VoiceStep(afterFetch(
           [voice EXCEPT !.pending = SubSeq(@, 1, k - 1)
                                     \o SubSeq(@, k + 1, Len(@))],
           voice.pending[k], speaks))

\* The utterance ends or fails.
TtsEnds ==
    /\ voice.tts = "playing"
    /\ VoiceStep(handleEnd(voice))

\* The stop button, shown while isSpeaking.
StopSpeaking ==
    /\ voice.isSpeaking
    /\ VoiceStep(stopSpeaking(voice))

\* A running session ends on its own (silence).
SessionEnds(i) ==
    /\ i \in 1..Len(voice.recs)
    /\ voice.recs[i].state = "running"
    /\ VoiceStep(onend(voice, i))

\* The end event that follows stop() or an error event.
EndEvent(i) ==
    /\ i \in 1..Len(voice.recs)
    /\ voice.recs[i].state \in {"stopping", "errored"}
    /\ VoiceStep(onend(voice, i))

\* A running session fails (no-speech, network, ...).
SessionErrors(i) ==
    /\ i \in 1..Len(voice.recs)
    /\ voice.recs[i].state = "running"
    /\ ~voice.recs[i].timer
    /\ VoiceStep(onerror(voice, i))

\* The 300 ms timer of onerror runs recognition.start().
RestartTimer(i) ==
    /\ i \in 1..Len(voice.recs)
    /\ voice.recs[i].timer
    /\ VoiceStep([voice EXCEPT !.recs[i] = [start(@) EXCEPT !.timer = FALSE]])

InitVoice ==
    /\ InitSync
    /\ AiIdle
    /\ PanelIdle
    /\ DebounceIdle
    /\ ClearIdle
    /\ \E c \in Components : voice = VoiceStart(c)
    /\ AsrIdle
    /\ socks = <<>>
    /\ candidate = <<>>
    /\ validated = <<>>
    /\ vpc = "idle"

NextVoice ==
    \/ ToggleListening
    \/ \E i \in 1..MaxRecs : FinalResult(i)
    \/ ManualSubmit
    \/ \E k \in 1..MaxVoicePending, speaks \in BOOLEAN : Respond(k, speaks)
    \/ TtsEnds
    \/ StopSpeaking
    \/ \E i \in 1..MaxRecs : SessionEnds(i)
    \/ \E i \in 1..MaxRecs : EndEvent(i)
    \/ \E i \in 1..MaxRecs : SessionErrors(i)
    \/ \E i \in 1..MaxRecs : RestartTimer(i)

SpecVoice == InitVoice /\ [][NextVoice]_vars

\* Every event the browser owes happens: a pending fetch settles, the
\* utterance ends, an end event follows stop() and an error, a timer runs.
SpecVoiceFair ==
    /\ SpecVoice
    /\ WF_vars(\E k \in 1..MaxVoicePending, speaks \in BOOLEAN :
                   Respond(k, speaks))
    /\ WF_vars(TtsEnds)
    /\ WF_vars(\E i \in 1..MaxRecs : EndEvent(i))
    /\ WF_vars(\E i \in 1..MaxRecs : RestartTimer(i))

(***************************************************************************)
(* recognition.onresult on every result up to MaxText characters.          *)
(***************************************************************************)

InitAsr ==
    /\ InitSync
    /\ AiIdle
    /\ PanelIdle
    /\ DebounceIdle
    /\ ClearIdle
    /\ VoiceIdle
    /\ \E text \in SeqsUpTo(Chars, MaxText), isFinal \in BOOLEAN :
          asr = AsrResult(text, isFinal, FALSE, <<>>)
    /\ socks = <<>>
    /\ candidate = <<>>
    /\ validated = <<>>
    /\ vpc = "idle"

\* The recognition delivers the result.
OnResult ==
    /\ ~asr.handled
    /\ asr' = [asr EXCEPT !.handled = TRUE,
                          !.submitted = onresult(asr.text, asr.isFinal)]
    /\ UNCHANGED <<ui, reqs, settled, sync, clear, voice, svars, cvars, vvars,
                 avars>>

NextAsr == OnResult

SpecAsr == InitAsr /\ [][NextAsr]_vars

Init ==
    /\ InitSync
    /\ AiIdle
    /\ PanelIdle
    /\ DebounceIdle
    /\ ClearIdle
    /\ VoiceIdle
    /\ AsrIdle
    /\ socks = <<>>
    /\ candidate = <<>>
    /\ validated = <<>>
    /\ vpc = "idle"

Next ==
    \/ \E e \in CreateMenu : SrvCreate(e)
    \/ \E e \in UpdateMenu : SrvUpdate(e)
    \/ \E id \in {"a", "b"} : SrvDelete(id)
    \/ \E b \in BatchMenu : SrvBatch(b)
    \/ SrvClear
    \/ \E v \in {"A"} :
         \/ Connect(v)
         \/ Disconnect(v)
         \/ Deliver(v)
         \/ Load(v)
         \/ LocalEdit(v)
         \/ LocalErase(v)
         \/ AutoSync(v)

Spec == Init /\ [][Next]_vars

SpecClear == Init /\ [][NextClear]_vars

\* Two viewers that draw, erase what they drew and sync, with no other
\* source of mutations.
NextTwo ==
    \E v \in Viewers :
        \/ Connect(v)
        \/ Deliver(v)
        \/ Load(v)
        \/ LocalEdit(v)
        \/ AutoSync(v)

SpecTwo == Init /\ [][NextTwo]_vars

\* Two batches, each with a shape and an arrow whose start refers to the
\* shape of the other batch.
CrossMenu ==
    {<<Plain("a", "rectangle"),
       Element("b", "arrow", 0, NullBound, NoId, "c", NoId)>>,
     <<Plain("c", "rectangle"),
       Element("d", "arrow", 0, NullBound, NoId, "a", NoId)>>}

\* Batches committed one after the other while a viewer follows.
NextBatch ==
    \/ \E b \in CrossMenu : SrvBatch(b)
    \/ \E id \in {"a", "c"} : SrvDelete(id)
    \/ Connect("A")
    \/ Disconnect("A")
    \/ Deliver("A")
    \/ Load("A")

SpecBatch == Init /\ [][NextBatch]_vars

(***************************************************************************)
(* The connection lifecycle of one client (viewer "A"): the mount effect,  *)
(* the [excalidrawAPI, isConnected] effect, connectWebSocket and the       *)
(* socket handlers, each with the excalidrawAPI its closure captured.      *)
(***************************************************************************)

MaxSocks == 3
MaxTime == 4

\* setTimeout(connectWebSocket, 3000), in seconds.
ReconnectDelay == 3

\* A WebSocket: its readyState, whether the render that created it (and
\* whose handleWebSocketMessage its onmessage calls) had excalidrawAPI
\* set, and the messages sent to it and not yet handled.
Sock(state, fresh) == [state |-> state, fresh |-> fresh, inbox |-> <<>>]

\* A connectWebSocket that returns whenever websocketRef.current is set,
\* whatever its readyState.
connectWebSocket_Once(ss, fresh) ==
    IF ss # <<>> THEN ss ELSE Append(ss, Sock("connecting", fresh))

\* connectWebSocket, called from a render whose excalidrawAPI is set
\* (fresh) or null: nothing if websocketRef.current is OPEN, else a new
\* socket replaces websocketRef.current.
connectWebSocket(ss, fresh) ==
    IF ss # <<>> /\ ss[Len(ss)].state = "open"
    THEN ss
    ELSE Append(ss, Sock("connecting", fresh))

\* The useEffect on [excalidrawAPI, isConnected], run with the values of
\* the new render: the sockets after it, and whether it called
\* loadExistingElements.
EffectSocks(ss, apiNow, connectedNow) ==
    IF apiNow /\ ~connectedNow THEN connectWebSocket(ss, TRUE) ELSE ss

EffectLoads(apiNow) == apiNow

\* Excalidraw hands over its API: setExcalidrawAPI, then the effect.
ApiReady ==
    /\ ~api
    /\ api' = TRUE
    /\ socks' = EffectSocks(socks, TRUE, isConnected)
    /\ loadTimer' = [loadTimer EXCEPT !["A"] = @ \/ EffectLoads(TRUE)]
    /\ UNCHANGED <<store, conn, inbox, scene, syncTimer, applied, repeated,
                   resync, ops, now, isConnected, timers, lastDrop, vvars, avars, uvars>>

\* onopen of socket i: setIsConnected(true), a load scheduled if the
\* closure has the API, then the effect if isConnected changed. The hub
\* sends the snapshot to the new channel.
SockOpen(i) ==
    /\ socks[i].state = "connecting"
    /\ isConnected' = TRUE
    /\ socks' = EffectSocks(
                   [socks EXCEPT ![i].state = "open",
                                 ![i].inbox = <<Msg("initial_elements",
                                                    store, NoId)>>],
                   api, TRUE)
    /\ loadTimer' = [loadTimer EXCEPT !["A"] =
                        \/ @
                        \/ socks[i].fresh
                        \/ (~isConnected /\ EffectLoads(api))]
    /\ UNCHANGED <<store, conn, inbox, scene, syncTimer, applied, repeated,
                   resync, ops, now, api, timers, lastDrop, vvars, avars, uvars>>

\* onclose of socket i with code 1000 (clean) or another code:
\* setIsConnected(false), the reconnect timer unless the close was clean,
\* then the effect if isConnected changed.
SockClose(i, clean) ==
    /\ ops < MaxOps
    /\ socks[i].state \in {"connecting", "open"}
    /\ isConnected' = FALSE
    /\ timers' = IF clean THEN timers
                 ELSE Append(timers, [at |-> now,
                                      due |-> now + ReconnectDelay,
                                      fresh |-> socks[i].fresh])
    /\ socks' = LET closed == [socks EXCEPT ![i].state = "closed",
                                            ![i].inbox = <<>>]
                IN  IF isConnected THEN EffectSocks(closed, api, FALSE)
                    ELSE closed
    /\ loadTimer' = [loadTimer EXCEPT !["A"] =
                        @ \/ (isConnected /\ EffectLoads(api))]
    /\ lastDrop' = IF clean THEN lastDrop ELSE now
    /\ ops' = ops + 1
    /\ UNCHANGED <<store, conn, inbox, scene, syncTimer, applied, repeated,
                   resync, now, api, vvars, avars, uvars>>

\* A reconnect timer fires: connectWebSocket of the render that created
\* the socket whose onclose set the timer.
TimerFire(k) ==
    /\ timers[k].due <= now
    /\ timers' = SubSeq(timers, 1, k - 1) \o SubSeq(timers, k + 1, Len(timers))
    /\ socks' = connectWebSocket(socks, timers[k].fresh)
    /\ UNCHANGED <<svars, now, api, isConnected, lastDrop, vvars, avars, uvars>>

\* A second passes; a timer that is due fires first.
Tick ==
    /\ \A k \in 1..Len(timers) : timers[k].due > now
    /\ now' = now + 1
    /\ UNCHANGED <<svars, api, isConnected, socks, timers, lastDrop, vvars, avars, uvars>>

\* onmessage of socket i: handleWebSocketMessage of the render that
\* created the socket, which returns at once when its excalidrawAPI is
\* null.
SockDeliver(i) ==
    /\ socks[i].state = "open"
    /\ socks[i].inbox # <<>>
    /\ ApplyUpdate("A", IF socks[i].fresh
                        THEN handleWebSocketMessage(scene["A"],
                                                    Head(socks[i].inbox))
                        ELSE NoUpdate)
    /\ socks' = [socks EXCEPT ![i].inbox = Tail(@)]
    /\ applied' = [applied EXCEPT !["A"] = Head(socks[i].inbox)]
    /\ repeated' = [repeated EXCEPT !["A"] =
                       (Head(socks[i].inbox) = applied["A"])]
    /\ UNCHANGED <<store, conn, inbox, loadTimer, resync, ops, tvars, vvars, avars, uvars>>

\* After the first render and its effects: the mount effect has called
\* connectWebSocket with excalidrawAPI still null.
InitConn ==
    /\ InitSync
    /\ AiIdle
    /\ PanelIdle
    /\ DebounceIdle
    /\ ClearIdle
    /\ VoiceIdle
    /\ AsrIdle
    /\ socks = connectWebSocket(<<>>, FALSE)
    /\ candidate = <<>>
    /\ validated = <<>>
    /\ vpc = "idle"

\* The events of one client and of the server, while the client has made
\* at most MaxSocks sockets and the clock is at most MaxTime.
NextConn ==
    \/ ApiReady /\ Len(socks') <= MaxSocks
    \/ \E i \in 1..Len(socks) : SockOpen(i)
    \/ \E i \in 1..Len(socks), clean \in BOOLEAN :
          SockClose(i, clean) /\ Len(socks') <= MaxSocks
    \/ \E i \in 1..Len(socks) : SockDeliver(i)
    \/ \E k \in 1..Len(timers) :
          TimerFire(k) /\ Len(socks') <= MaxSocks
    \/ now < MaxTime /\ Tick
    \/ Load("A")
    \/ \E e \in {Plain("a", "rectangle")} : SrvCreate(e)
    \/ \E id \in {"a"} : SrvDelete(id)

SpecConn == InitConn /\ [][NextConn]_vars

\* Reconnecting: the network fails connections for a while (every such
\* close has a code other than 1000) and accepts them from then on. It
\* fails one only while the retry that follows fits the clock and the
\* number of sockets of the model.
MaxRetryTime == 7
MaxRetrySocks == 4

Drop(i) ==
    /\ SockClose(i, FALSE)
    /\ now + ReconnectDelay <= MaxRetryTime
    /\ Len(socks') + Len(timers') + (IF api THEN 0 ELSE 1) <= MaxRetrySocks

NextRetry ==
    \/ ApiReady
    \/ \E i \in 1..Len(socks) : SockOpen(i)
    \/ \E i \in 1..Len(socks) : Drop(i)
    \/ \E k \in 1..Len(timers) : TimerFire(k)
    \/ now < MaxRetryTime /\ Tick

\* The timers run and fire, and a connection that is not failed opens.
SpecRetry ==
    /\ InitConn
    /\ [][NextRetry]_vars
    /\ WF_vars(\E k \in 1..Len(timers) : TimerFire(k))
    /\ WF_vars(now < MaxRetryTime /\ Tick)
    /\ WF_vars(\E i \in 1..Len(socks) : SockOpen(i))

(***************************************************************************)
(* An analyze request: generateActions on the reply of the action source,  *)
(* then the batch committed to the store or rejected.                      *)
(***************************************************************************)

\* Both viewers are connected and have handled the snapshot of the empty
\* store when the request is made.
InitAI ==
    /\ store = <<>>
    /\ conn = [v \in Viewers |-> TRUE]
    /\ inbox = [v \in Viewers |-> <<>>]
    /\ scene = [v \in Viewers |-> <<>>]
    /\ syncTimer = [v \in Viewers |-> FALSE]
    /\ loadTimer = [v \in Viewers |-> FALSE]
    /\ applied = [v \in Viewers |-> NoMsg]
    /\ repeated = [v \in Viewers |-> FALSE]
    /\ resync = [v \in Viewers |-> "init"]
    /\ ops = 0
    /\ now = 0
    /\ api = TRUE
    /\ isConnected = TRUE
    /\ timers = <<>>
    /\ lastDrop = -1
    /\ socks = <<>>
    /\ candidate = <<>>
    /\ validated = <<>>
    /\ vpc = "idle"
    /\ \/ reply = NoResponse
       \/ \E raw \in SeqsUpTo(PieceMenu, MaxReply) :
             reply = [text |-> TRUE, raw |-> raw]
    /\ aiResult = NoResult
    /\ aipc = "called"
    /\ PanelIdle
    /\ DebounceIdle
    /\ ClearIdle
    /\ VoiceIdle
    /\ AsrIdle

GenerateActions ==
    /\ aipc = "called"
    /\ aiResult' = generateActions(reply)
    /\ aipc' = "returned"
    /\ UNCHANGED <<reply, svars, cvars, vvars, uvars>>

\* The ids the translator assigns to the elements the actions add.
NewIds == <<"a", "b">>

\* The requester's side of the call: the actions returned are applied as
\* one batch (an item without the {action, element} shape is skipped),
\* with one event broadcast; nothing is applied when the call threw.
AiCommit ==
    /\ aipc = "returned"
    /\ aiResult.ok
    /\ CanBroadcast
    /\ LET batch == [k \in 1..Len(SelectSeq(aiResult.actions, LAMBDA ok : ok))
                        |-> Plain(NewIds[k], "rectangle")]
           recs == Committed(store, batch)
       IN  /\ store' = StorePutAll(store, recs)
           /\ Broadcast(Msg("elements_batch_created", recs, NoId))
    /\ aipc' = "committed"
    /\ UNCHANGED <<conn, scene, syncTimer, loadTimer, applied, repeated,
                   resync, ops, reply, aiResult, tvars, vvars, uvars>>

AiReject ==
    /\ aipc = "returned"
    /\ ~aiResult.ok
    /\ aipc' = "rejected"
    /\ UNCHANGED <<reply, aiResult, svars, cvars, vvars, uvars>>

NextAI ==
    \/ GenerateActions
    \/ AiCommit
    \/ AiReject
    \/ \E v \in Viewers : Deliver(v)

SpecAI == InitAI /\ [][NextAI]_vars

(***************************************************************************)
(* Analyze requests of one user                                            *)
(***************************************************************************)

NextSubmit ==
    \/ \E path \in Paths : Submit(path)
    \/ \E k \in 1..MaxPending, o \in Outcomes : Settle(k, o)

SpecSubmit == Init /\ [][NextSubmit]_vars

(***************************************************************************)
(* Canvas changes of one client and their debounced sync                   *)
(***************************************************************************)

NextDebounce ==
    \/ ApiReady
    \/ CanvasChange
    \/ \E k \in 1..MaxChanges : TimeoutRuns(k)
    \/ HalfSecond

SpecDebounce == Init /\ [][NextDebounce]_vars

(***************************************************************************)
(* Properties of validateAndFixBindings (checked under SpecV)              *)
(***************************************************************************)

\* C1: in the output of validateAndFixBindings every remaining
\* boundElements entry has the id of an element of the candidate list, and
\* every containerId still set is the id of an element of the list.
C1_SurvivingReferencesResolve ==
    vpc = "validated" =>
        \A i \in 1..Len(validated) :
            /\ \A j \in 1..Len(EntriesOf(validated[i].boundElements)) :
                  EntriesOf(validated[i].boundElements)[j].id
                      \in IdsOf(candidate)
            /\ validated[i].containerId # NoId =>
                  validated[i].containerId \in IdsOf(candidate)

\* C1 witness: the check ran on an element whose containerId dangles and
\* whose boundElements holds a dangling entry next to one that survived.
C1_Witness ==
    /\ vpc = "validated"
    /\ \E i \in 1..Len(candidate) :
          /\ candidate[i].containerId \notin IdsOf(candidate) \cup {NoId}
          /\ \E j \in 1..Len(EntriesOf(candidate[i].boundElements)) :
                EntriesOf(candidate[i].boundElements)[j].id
                    \notin IdsOf(candidate) \cup {NoId}
          /\ Len(EntriesOf(validated[i].boundElements)) = 1

\* C2 (as claimed): after the check no arrow holds a start or end
\* reference to an id that is not the id of an element of the candidate
\* list.
C2_EndpointsResolve ==
    vpc = "validated" =>
        \A i \in 1..Len(validated) :
            /\ validated[i].start \in IdsOf(candidate) \cup {NoId}
            /\ validated[i].end \in IdsOf(candidate) \cup {NoId}

\* An entry that is an object with an id and a type of text or arrow.
WellFormedEntry(b) == b.obj /\ b.id # NoId /\ b.type \in {"text", "arrow"}

WellFormedBound(bound) ==
    /\ bound.kind = "array"
    /\ \A j \in 1..Len(bound.items) : WellFormedEntry(bound.items[j])

\* C10 (as claimed): a boundElements value that is set and is not a
\* well-formed sequence of {id, type} entries leaves the check with no
\* entry at all.
C10_IllFormedClearedEntirely ==
    vpc = "validated" =>
        \A i \in 1..Len(candidate) :
            (candidate[i].boundElements.kind \in {"other", "array"}
                /\ ~WellFormedBound(candidate[i].boundElements))
            => EntriesOf(validated[i].boundElements) = <<>>

\* C10 (amended): a truthy boundElements that is no array becomes null; of
\* an array exactly the entries that are well formed and resolve in the
\* candidate list are kept, in order, each ill-formed entry being dropped
\* on its own; the value becomes null only when no entry is kept.
C10_IllFormedEntriesDropped ==
    vpc = "validated" =>
        \A i \in 1..Len(candidate) :
            LET old == candidate[i].boundElements
                new == validated[i].boundElements
                good == SelectSeq(EntriesOf(old),
                            LAMBDA b : WellFormedEntry(b)
                                       /\ b.id \in IdsOf(candidate))
            IN  /\ old.kind = "other" => new = NullBound
                /\ old.kind = "array" =>
                      /\ EntriesOf(new) = good
                      /\ new.kind = IF good = <<>> THEN "null" ELSE "array"

\* C10 witness: an array with an ill-formed entry and a well-formed one
\* that resolves went through the check and kept one entry.
C10_Witness ==
    /\ vpc = "validated"
    /\ \E i \in 1..Len(candidate) :
          /\ candidate[i].boundElements.kind = "array"
          /\ ~WellFormedBound(candidate[i].boundElements)
          /\ Len(candidate[i].boundElements.items) = 2
          /\ Len(EntriesOf(validated[i].boundElements)) = 1

\* C11 (as claimed): of a well-formed boundElements sequence exactly the
\* entries whose id is the id of another element of the candidate list (an
\* element other than the holder) are kept, in their original order.
C11_KeptIffResolvesToOther ==
    vpc = "validated" =>
        \A i \in 1..Len(candidate) :
            WellFormedBound(candidate[i].boundElements)
            => EntriesOf(validated[i].boundElements)
                 = SelectSeq(candidate[i].boundElements.items,
                             LAMBDA b : b.id \in IdsOf(candidate)
                                                  \ {candidate[i].id})

\* C23: the check returns one element per element of its input, in the
\* same order and with the same id, changes no field other than
\* boundElements and containerId, and leaves its input as it was.
C23_PureTransform ==
    [][Validate =>
          /\ candidate' = candidate
          /\ Len(validated') = Len(candidate)
          /\ \A i \in 1..Len(candidate) :
                /\ validated'[i].id = candidate[i].id
                /\ [validated'[i] EXCEPT !.boundElements = NullBound,
                                         !.containerId = NoId]
                     = [candidate[i] EXCEPT !.boundElements = NullBound,
                                           !.containerId = NoId]]_vars

\* C23 witness: the check ran on a list of two or more elements one of
\* which carries a start or end that does not resolve, and changed the
\* boundElements or containerId of an element.
C23_Witness ==
    /\ vpc = "validated"
    /\ Len(candidate) >= 2
    /\ validated # candidate
    /\ \E i \in 1..Len(candidate) :
          \/ candidate[i].start \notin IdsOf(candidate) \cup {NoId}
          \/ candidate[i].end \notin IdsOf(candidate) \cup {NoId}

\* C24: the check is idempotent: applied to its own output it returns
\* that output unchanged.
C24_Idempotent ==
    vpc = "validated" => validateAndFixBindings(validated) = validated

\* C24 witness: the check ran on a list in which it cleared a containerId
\* and dropped one boundElements entry of an element while keeping another.
C24_Witness ==
    /\ vpc = "validated"
    /\ \E i \in 1..Len(candidate) :
          /\ candidate[i].containerId # NoId
          /\ validated[i].containerId = NoId
          /\ Len(EntriesOf(candidate[i].boundElements)) = 2
          /\ Len(EntriesOf(validated[i].boundElements)) = 1

(***************************************************************************)
(* Properties of the reconciler (checked under Spec and SpecTwo)           *)
(***************************************************************************)

\* Every containerId and boundElements entry of a list refers to an id of
\* the list.
NoDangling(elements) ==
    \A i \in 1..Len(elements) :
        /\ elements[i].containerId \in IdsOf(elements) \cup {NoId}
        /\ \A j \in 1..Len(EntriesOf(elements[i].boundElements)) :
              EntriesOf(elements[i].boundElements)[j].id \in IdsOf(elements)

\* C3 (as claimed): after any sequence of server messages and HTTP loads
\* applied by the client, every containerId and every boundElements entry
\* in the local scene refers to an id present in the local scene.
C3_NoDanglingInScene == \A v \in Viewers : NoDangling(scene[v])

\* The id, type and attributes of each element, as a set.
Content(elements) ==
    {<<elements[i].id, elements[i].type, elements[i].val>> :
        i \in 1..Len(elements)}

\* A viewer that has reconnected, has handled the snapshot and done the
\* load, with no mutation since the reconnect and no local change left to
\* sync.
Resynced(v) ==
    /\ resync[v] = "up"
    /\ conn[v]
    /\ inbox[v] = <<>>
    /\ ~loadTimer[v]
    /\ ~syncTimer[v]

\* C4 (as claimed): once a viewer has disconnected, mutations have been
\* committed, and it has reconnected and completed the snapshot exchange
\* with no further mutation, its local scene has exactly the ids of the
\* store with the store's attributes.
C4_ReconnectedSceneIsStore ==
    \A v \in Viewers :
        Resynced(v)
        => /\ Content(scene[v]) = Content(store)
           /\ Len(scene[v]) = Len(store)

\* C5 (as claimed): handling a server message never starts the auto-sync
\* timer.
C5_ServerChangeSchedulesNoSync ==
    [][\A v \in Viewers : Deliver(v) => syncTimer'[v] = syncTimer[v]]_vars

\* C6 (as claimed): an element that another viewer drew and that is in
\* the store is still in the store after a viewer's sync, also when the
\* syncing viewer's scene does not hold it.
C6_SyncKeepsOthersElements ==
    [][\A v \in Viewers :
          (AutoSync(v) /\ \A w \in Viewers : conn[w]) =>
            \A w \in Viewers \ {v} :
                LocalId(w) \in IdsOf(store) => LocalId(w) \in IdsOf(store')]_vars

\* C6 (amended): a sync sent by a viewer replaces the content of the store
\* by that viewer's scene: after it the store holds exactly the ids of the
\* viewer's scene, so an element the viewer had not received is removed.
C6_SyncReplacesStore ==
    [][\A v \in Viewers :
          AutoSync(v) =>
            /\ IdsOf(store') = IdsOf(scene[v])
            /\ \A i \in 1..Len(scene[v]) :
                  \E k \in 1..Len(store') :
                      /\ store'[k].id = scene[v][i].id
                      /\ store'[k].val = scene[v][i].val]_vars

\* C6 witness: the store holds only viewer A's element although viewer B
\* still shows the element it drew and synced.
C6_Witness ==
    /\ IdsOf(store) = {"c"}
    /\ "d" \in IdsOf(scene["B"])
    /\ ~syncTimer["B"]
    /\ conn["A"] /\ conn["B"]

\* C7 (as claimed): the local scene holds at most one element per id.
C7_OneElementPerId ==
    \A v \in Viewers : Cardinality(IdsOf(scene[v])) = Len(scene[v])

\* C8: handling an element_updated message keeps the scene's ids in place
\* (no element added, removed or duplicated) and puts the converted
\* element where the id matches; handling the same message a second time
\* leaves the scene as the first handling left it.
C8_UpdateIdempotent ==
    [][\A v \in Viewers :
          (Deliver(v) /\ Head(inbox[v]).type = "element_updated") =>
            LET m == Head(inbox[v])
            IN  /\ Len(scene'[v]) = Len(scene[v])
                /\ \A i \in 1..Len(scene[v]) :
                      /\ scene'[v][i].id = scene[v][i].id
                      /\ scene[v][i].id = m.elements[1].id
                           => scene'[v][i].val = m.elements[1].val
                      /\ scene[v][i].id # m.elements[1].id
                           => scene'[v][i] = scene[v][i]
                /\ m = applied[v] => scene'[v] = scene[v]]_vars

\* C8 witness: an element_updated message has been handled twice in a row
\* by a viewer whose scene holds the updated element.
C8_Witness ==
    \E v \in Viewers :
        /\ applied[v].type = "element_updated"
        /\ repeated[v]
        /\ \E i \in 1..Len(scene[v]) :
              /\ scene[v][i].id = applied[v].elements[1].id
              /\ scene[v][i].val = 1

\* Whether created elements carry a binding of either kind.
CarriesBinding(elements) ==
    \E i \in 1..Len(elements) :
        \/ elements[i].start # NoId
        \/ elements[i].end # NoId
        \/ elements[i].containerId # NoId

IsCreate(m) == m.type \in {"element_created", "elements_batch_created"}

\* C9 (as claimed): created elements that carry a binding (start/end or
\* containerId) are converted together with all the current scene
\* elements.
C9_BindingsConvertedWithScene ==
    [][\A v \in Viewers :
          (Deliver(v) /\ IsCreate(Head(inbox[v]))
                      /\ CarriesBinding(Head(inbox[v]).elements)) =>
            handleWebSocketMessage(scene[v], Head(inbox[v])).converted
                = scene[v] \o CleanAll(Head(inbox[v]).elements)]_vars

\* C9 (amended): created elements of which one carries an arrow start or
\* end are converted together with all the current scene elements, and an
\* endpoint whose target is in the scene or among the created elements is
\* bound to it; created elements that carry at most a containerId are
\* converted on their own and appended.
C9_ArrowsConvertedWithScene ==
    [][\A v \in Viewers :
          (Deliver(v) /\ IsCreate(Head(inbox[v]))) =>
            LET new == CleanAll(Head(inbox[v]).elements)
                r == handleWebSocketMessage(scene[v], Head(inbox[v]))
            IN  IF hasBoundArrows(new)
                THEN /\ r.converted = scene[v] \o new
                     /\ \A i \in 1..Len(new) :
                          (/\ new[i].start # NoId
                           /\ new[i].id \notin IdsOf(scene[v])
                           /\ \E k \in 1..Len(scene[v] \o new) :
                                 /\ (scene[v] \o new)[k].id = new[i].start
                                 /\ (scene[v] \o new)[k].type # "arrow")
                          => \E k \in 1..Len(scene'[v]) :
                                /\ scene'[v][k].id = new[i].id
                                /\ scene'[v][k].startBinding = new[i].start
                ELSE /\ r.converted = new
                     /\ SubSeq(scene'[v], 1, Len(scene[v])) = scene[v]]_vars

\* C9 witness: an arrow created by itself was bound to an element that
\* was already in the scene.
C9_Witness ==
    \E v \in Viewers :
        /\ applied[v].type = "element_created"
        /\ applied[v].elements[1].start = "a"
        /\ \E k \in 1..Len(scene[v]) :
              /\ scene[v][k].id = "b"
              /\ scene[v][k].startBinding = "a"

(***************************************************************************)
(* Properties of the connection lifecycle (checked under SpecConn)         *)
(***************************************************************************)

\* C12 (as claimed): once a socket of a client whose excalidrawAPI is set
\* has closed with a code other than 1000, no new socket is created before
\* ReconnectDelay seconds have passed since that close, and every
\* reconnect timer is set for exactly ReconnectDelay seconds.
C12_NoReconnectBeforeBackoff ==
    [][/\ (Len(socks') > Len(socks) /\ api /\ (lastDrop >= 0 \/ lastDrop' >= 0))
            => now >= lastDrop' + ReconnectDelay
       /\ \A k \in 1..Len(timers') :
             timers'[k].due - timers'[k].at = ReconnectDelay]_vars

\* C13 (as claimed): whenever the client's current WebSocket opens, with
\* excalidrawAPI set, a load of the full element list is requested, and
\* when the load completes the local scene is the list it returned.
C13_ConnectLoadsSnapshot ==
    [][/\ (socks # <<>> /\ SockOpen(Len(socks)) /\ api) => loadTimer'["A"]
       /\ Load("A") => /\ Content(scene'["A"]) = Content(store)
                       /\ Len(scene'["A"]) = Len(store)]_vars

ElementEvents == {"element_created", "element_updated", "element_deleted",
                  "elements_batch_created", "canvas_cleared"}

\* C25 (as claimed): once the drawing API is available, an element event
\* received on the open socket the client holds (websocketRef.current) is
\* applied to the scene as its handler prescribes, whichever of the socket
\* opening and the API arriving came first.
C25_EventsAppliedOnceReady ==
    [][\A i \in 1..Len(socks) :
          (/\ SockDeliver(i)
           /\ i = Len(socks)
           /\ api
           /\ Head(socks[i].inbox).type \in ElementEvents) =>
            LET r == handleWebSocketMessage(scene["A"], Head(socks[i].inbox))
            IN  r.called => scene'["A"] = r.elements]_vars

\* The sockets that are connecting or open.
Live == {i \in 1..Len(socks) : socks[i].state \in {"connecting", "open"}}

\* C26 (as claimed): at any time at most one WebSocket of the viewer is
\* connecting or open.
C26_AtMostOneLiveSocket == Cardinality(Live) <= 1

\* C27 (as claimed): a close with code 1000 of the viewer's only socket
\* creates no new WebSocket and sets no reconnect timer.
C27_CleanCloseNoReconnect ==
    [][\A i \in 1..Len(socks) :
          (SockClose(i, TRUE) /\ Live = {i}) =>
            /\ Len(socks') = Len(socks)
            /\ timers' = timers]_vars

\* C28: after a socket closed with a code other than 1000, whether it was
\* open or still connecting, the client has an open socket again at some
\* later time, provided the timers fire and a connection that is not
\* failed opens.
C28_EventuallyConnectedAgain ==
    \A n \in 0..MaxRetryTime :
        (lastDrop = n) ~> (\E i \in 1..Len(socks) : socks[i].state = "open")

\* C28 witness: a first attempt failed, the retry made by the timer failed
\* as well, and the retry after that one is open.
C28_Witness ==
    /\ lastDrop >= ReconnectDelay
    /\ now >= lastDrop + ReconnectDelay
    /\ timers = <<>>
    /\ Len(socks) >= 3
    /\ socks[Len(socks)].state = "open"
    /\ \A j \in 1..(Len(socks) - 1) : socks[j].state = "closed"

(***************************************************************************)
(* Properties of generateActions (checked under SpecAI)                    *)
(***************************************************************************)

\* The value generateActions parses out of a reply.
ParsedOf(response) == JSONparse(extractJSON(response.raw))

\* A reply that parses to an object with an explanation and an actions
\* array whose items all have the {action, element} shape.
ExpectedShape(response) ==
    /\ response.text
    /\ ParsedOf(response).ok
    /\ ParsedOf(response).value.kind = "object"
    /\ ParsedOf(response).value.explanation
    /\ ParsedOf(response).value.actions.kind = "array"
    /\ \A k \in 1..Len(ParsedOf(response).value.actions.items) :
          ParsedOf(response).value.actions.items[k]

\* C15 (as claimed): when the reply is not parseable JSON or lacks the
\* expected shape (an explanation and an actions array of {action,
\* element} items), generateActions throws, returns no action, and the
\* store stays untouched.
C15_MalformedReplyRejected ==
    (aipc # "called" /\ ~ExpectedShape(reply))
    => /\ ~aiResult.ok
       /\ aiResult.actions = <<>>
       /\ store = <<>>

\* C15 (amended): generateActions throws, returns no action and leaves
\* the store untouched when the reply has no text block, when the text
\* extractJSON cuts out of it is not one JSON value, or when that value
\* has no actions array; in every other case it returns the parsed
\* actions as they are, whether or not an explanation is present and
\* whatever the shape of the items.
C15_RejectedUnlessActionsArray ==
    aipc # "called" =>
        /\ ~aiResult.ok
             => /\ aiResult.actions = <<>>
                /\ store = <<>>
                /\ aipc # "committed"
        /\ aiResult.ok
             <=> /\ reply.text
                 /\ \E k \in 1..Len(extractJSON(reply.raw)) :
                       /\ Len(extractJSON(reply.raw)) = 1
                       /\ extractJSON(reply.raw)[k].seg = "json"
                       /\ extractJSON(reply.raw)[k].value.actions.kind = "array"
        /\ aiResult.ok
             => /\ aiResult.actions = ParsedOf(reply).value.actions.items
                /\ aiResult.explanation = ParsedOf(reply).value.explanation
        /\ \A v \in ValueMenu :
              reply.raw \in {<<JsonText(v)>>,
                             <<Piece("prose", JsonNull), Piece("fence", JsonNull),
                               JsonText(v)>>}
              => (aiResult.ok <=> v.actions.kind = "array")

\* C15 witness: a reply that is JSON text between fences, an object with
\* an explanation whose actions is no array, has been rejected.
C15_Witness ==
    /\ aipc = "rejected"
    /\ reply.text
    /\ Len(reply.raw) = 3
    /\ reply.raw[1].seg = "fence"
    /\ reply.raw[3].seg = "fence"
    /\ reply.raw[2] = JsonText(JsonObject(TRUE, Actions("other", <<>>)))
    /\ aiResult.error = "Claude response missing actions array"
    /\ store = <<>>

\* C16: committing the batch of an analyze request, whatever the number
\* of actions in it, sends every connected viewer exactly one message, an
\* elements_batch_created carrying the elements committed, and a viewer
\* that handles it calls updateScene once, with the scene it had followed
\* by every element of the batch.
C16_OneEventOneUpdate ==
    [][/\ AiCommit =>
            \A v \in Viewers :
                /\ Len(inbox'[v]) = Len(inbox[v]) + 1
                /\ inbox'[v][Len(inbox'[v])].type = "elements_batch_created"
                /\ IdsOf(inbox'[v][Len(inbox'[v])].elements)
                      = IdsOf(store') \ IdsOf(store)
                /\ Len(inbox'[v][Len(inbox'[v])].elements)
                      = Len(SelectSeq(aiResult.actions, LAMBDA ok : ok))
       /\ \A v \in Viewers :
            (Deliver(v) /\ Head(inbox[v]).type = "elements_batch_created") =>
                /\ handleWebSocketMessage(scene[v], Head(inbox[v])).calls = 1
                /\ Len(scene'[v])
                      = Len(scene[v]) + Len(Head(inbox[v]).elements)
                /\ IdsOf(scene'[v])
                      = IdsOf(scene[v]) \cup IdsOf(Head(inbox[v]).elements)]_vars

\* C16 witness: a batch of two actions has been committed and both
\* viewers have applied its one event.
C16_Witness ==
    /\ aipc = "committed"
    /\ Len(aiResult.actions) = 2
    /\ \A v \in Viewers :
          /\ inbox[v] = <<>>
          /\ applied[v].type = "elements_batch_created"
          /\ IdsOf(scene[v]) = {"a", "b"}

(***************************************************************************)
(* Properties of batches and deletions (checked under Spec)                *)
(***************************************************************************)

\* A shape and a text whose containerId is the shape's id.
ShapeWithLabel ==
    <<Plain("a", "rectangle"),
      Element("b", "text", 0, NullBound, "a", NoId, NoId)>>

\* C17: a batch that adds a shape and a text whose containerId is the
\* shape's id, neither being in the store before, leaves both in the
\* store with the text's containerId still the shape's id, and every
\* connected viewer is sent one elements_batch_created message that
\* carries both.
C17_BatchBindingResolves ==
    [][SrvBatch(ShapeWithLabel) =>
          /\ Len(store') = Len(store) + 2
          /\ \E k \in 1..Len(store') :
                /\ store'[k].id = "b"
                /\ store'[k].containerId = "a"
          /\ \E k \in 1..Len(store') :
                store'[k].id = "a" /\ store'[k].type = "rectangle"
          /\ \A v \in Viewers :
                conn[v] =>
                    /\ Len(inbox'[v]) = Len(inbox[v]) + 1
                    /\ LET m == inbox'[v][Len(inbox'[v])]
                       IN  /\ m.type = "elements_batch_created"
                           /\ Len(m.elements) = 2
                           /\ m.elements[1].id = "a"
                           /\ m.elements[2].id = "b"
                           /\ m.elements[2].containerId = "a"]_vars

\* C17 witness: the batch is in the store with the binding intact and the
\* connected viewer has handled its one event.
C17_Witness ==
    /\ IdsOf(store) = {"a", "b"}
    /\ \E k \in 1..Len(store) :
          store[k].id = "b" /\ store[k].containerId = "a"
    /\ applied["A"].type = "elements_batch_created"
    /\ Len(applied["A"].elements) = 2
    /\ applied["A"].elements[2].containerId = "a"

\* C18 (as claimed): when the client applies the deletion of an element X
\* that the start of an arrow of its scene is bound to, every other
\* element, the arrow included, stays in the scene and no element of the
\* scene keeps a reference to X.
C18_DeleteClearsReferences ==
    [][\A v \in Viewers :
          (/\ Deliver(v)
           /\ Head(inbox[v]).type = "element_deleted"
           /\ \E i \in 1..Len(scene[v]) :
                 /\ scene[v][i].type = "arrow"
                 /\ scene[v][i].startBinding = Head(inbox[v]).elementId) =>
            LET X == Head(inbox[v]).elementId
            IN  /\ IdsOf(scene'[v]) = IdsOf(scene[v]) \ {X}
                /\ \A i \in 1..Len(scene'[v]) :
                      /\ scene'[v][i].startBinding # X
                      /\ scene'[v][i].endBinding # X
                      /\ scene'[v][i].containerId # X
                      /\ ~HasEntry(scene'[v][i].boundElements, X)]_vars

\* The server records a handler's updateScene call places in the scene.
AppliedRecords(currentElements, data) ==
    IF data.type \in {"initial_elements", "element_created",
                      "elements_batch_created"}
    THEN data.elements
    ELSE IF data.type = "element_updated"
         THEN SelectSeq(data.elements,
                        LAMBDA rec : rec.id \in IdsOf(currentElements))
         ELSE <<>>

\* The scene holds an element with the id of every record, and a following
\* element_updated / element_deleted for that id reaches it.
FoundById(elements, records) ==
    \A n \in 1..Len(records) :
        LET rec == records[n]
            updated == handleWebSocketMessage(elements,
                           Msg("element_updated", <<[rec EXCEPT !.val = 1]>>,
                               NoId)).elements
            deleted == handleWebSocketMessage(elements,
                           Msg("element_deleted", <<>>, rec.id)).elements
        IN  /\ \E k \in 1..Len(elements) :
                  /\ elements[k].id = rec.id
                  /\ updated[k].id = rec.id /\ updated[k].val = 1
            /\ rec.id \notin IdsOf(deleted)
            /\ Len(deleted) < Len(elements)

\* C20: every server record a handler applies (snapshot, create, update,
\* batch, HTTP load) is in the scene under the id of the record, so that a
\* following element_updated or element_deleted for the id reaches it.
C20_AppliedRecordsKeepIds ==
    [][\A v \in Viewers :
          /\ (Deliver(v)
                /\ handleWebSocketMessage(scene[v], Head(inbox[v])).called)
               => FoundById(scene'[v],
                            AppliedRecords(scene[v], Head(inbox[v])))
          /\ (Load(v) /\ loadExistingElements(store).called)
               => FoundById(scene'[v], store)]_vars

\* C20 witness: a viewer has placed a batch of two server records in its
\* scene, and then handled an update for an id the scene holds.
C20_Witness ==
    \E v \in Viewers :
        /\ applied[v].type = "element_updated"
        /\ \E k \in 1..Len(scene[v]) :
              /\ scene[v][k].id = applied[v].elements[1].id
              /\ scene[v][k].val = 1
        /\ Len(scene[v]) >= 2

\* The positions of a scene whose element has another id than X.
OtherThan(elements, X) == {i \in 1..Len(elements) : elements[i].id # X}

\* C30: when a viewer applies element_deleted for id X, its scene
\* afterwards holds no element with id X and holds every other element
\* unchanged and in the same order; a scene without an element of id X
\* stays as it is; and applying the same message once more to the
\* resulting scene gives that scene again.
C30_DeleteRemovesExactlyX ==
    [][\A v \in Viewers :
          (/\ Deliver(v)
           /\ Head(inbox[v]).type = "element_deleted") =>
            LET X    == Head(inbox[v]).elementId
                keep == OtherThan(scene[v], X)
            IN  /\ X \notin IdsOf(scene'[v])
                /\ Len(scene'[v]) = Cardinality(keep)
                /\ \A i \in keep :
                      scene'[v][Cardinality({j \in keep : j <= i})]
                          = scene[v][i]
                /\ X \notin IdsOf(scene[v]) => scene'[v] = scene[v]
                /\ handleWebSocketMessage(scene'[v],
                                          Head(inbox[v])).elements
                       = scene'[v]]_vars

\* C30 witness: a viewer has applied a deletion and its scene is left with
\* the elements the server still holds, of which there is at least one.
C30_Witness ==
    \E v \in Viewers :
        /\ applied[v].type = "element_deleted"
        /\ applied[v].elementId \notin IdsOf(scene[v])
        /\ scene[v] # <<>>
        /\ IdsOf(scene[v]) = IdsOf(store)

\* C31: whenever a clearCanvas call ends, the scene of its viewer is
\* empty, whether the listing or a DELETE failed or not; and when the
\* listing succeeded, a DELETE request has been issued by then for every
\* element the server listed.
C31_ClearEmptiesScene ==
    [][(clear.pc # "done" /\ clear'.pc = "done") =>
          /\ scene'[clear.v] = <<>>
          /\ clear.listOk => clear'.listed \subseteq clear'.issued]_vars

\* C31 witness: a clearCanvas call has ended with two elements listed and
\* a DELETE issued for both, one of them not yet handled by the server,
\* and the scene is empty.
C31_Witness ==
    /\ clear.pc = "done"
    /\ clear.listOk
    /\ Cardinality(clear.listed) = 2
    /\ clear.issued = clear.listed
    /\ clear.arrived # clear.issued
    /\ scene[clear.v] = <<>>
    /\ applied[clear.v] = NoMsg

\* The last n elements of a list.
LastN(s, n) == SubSeq(s, Len(s) - n + 1, Len(s))

\* The records are handed on without the bookkeeping fields and with every
\* other field as the server sent it.
HandedStripped(handed, records) ==
    /\ Len(handed) = Len(records)
    /\ \A n \in 1..Len(records) :
          /\ ~handed[n].meta
          /\ handed[n] = [records[n] EXCEPT !.meta = FALSE]

\* C21: on every path that applies server records (snapshot, create,
\* update, batch, HTTP load) the records handed to the conversion for the
\* renderer have the bookkeeping fields removed and every other field, the
\* id and the binding fields included, unchanged.
C21_RecordsStrippedOnly ==
    [][\A v \in Viewers :
          /\ (Deliver(v)
                /\ Head(inbox[v]).type \in
                      {"initial_elements", "element_created",
                       "element_updated", "elements_batch_created"}
                /\ handleWebSocketMessage(scene[v], Head(inbox[v])).called)
               => LET m == Head(inbox[v])
                      r == handleWebSocketMessage(scene[v], m)
                  IN  /\ Len(r.converted) >= Len(m.elements)
                      /\ HandedStripped(LastN(r.converted, Len(m.elements)),
                                        m.elements)
          /\ (Load(v) /\ loadExistingElements(store).called)
               => HandedStripped(loadExistingElements(store).converted,
                                 store)]_vars

\* The records are handed on without the bookkeeping fields; boundElements
\* and containerId may differ, every other field is as the server sent it.
HandedStrippedAndFixed(handed, records) ==
    /\ Len(handed) = Len(records)
    /\ \A n \in 1..Len(records) :
          /\ ~handed[n].meta
          /\ [handed[n] EXCEPT !.boundElements = NullBound,
                               !.containerId = NoId]
               = [records[n] EXCEPT !.meta = FALSE,
                                    !.boundElements = NullBound,
                                    !.containerId = NoId]

\* C21 (amended): on every path the records handed to the conversion have
\* the bookkeeping fields removed; on the create, update, batch and HTTP
\* load paths every other field is unchanged, and on the initial_elements
\* path every field other than boundElements and containerId is.
C21_RecordsStrippedThenFixed ==
    [][\A v \in Viewers :
          /\ (Deliver(v)
                /\ Head(inbox[v]).type \in
                      {"initial_elements", "element_created",
                       "element_updated", "elements_batch_created"}
                /\ handleWebSocketMessage(scene[v], Head(inbox[v])).called)
               => LET m == Head(inbox[v])
                      r == handleWebSocketMessage(scene[v], m)
                  IN  /\ Len(r.converted) >= Len(m.elements)
                      /\ IF m.type = "initial_elements"
                         THEN HandedStrippedAndFixed(r.converted, m.elements)
                         ELSE HandedStripped(
                                  LastN(r.converted, Len(m.elements)),
                                  m.elements)
          /\ (Load(v) /\ loadExistingElements(store).called)
               => HandedStripped(loadExistingElements(store).converted,
                                 store)]_vars

\* C21 witness: a viewer has applied a snapshot whose record carried the
\* bookkeeping fields and a containerId that the scene element lost.
C21_Witness ==
    \E v \in Viewers :
        /\ applied[v].type = "initial_elements"
        /\ \E n \in 1..Len(applied[v].elements) :
              /\ applied[v].elements[n].meta
              /\ applied[v].elements[n].containerId # NoId
              /\ n <= Len(scene[v])
              /\ scene[v][n].id = applied[v].elements[n].id
              /\ scene[v][n].type = "text"
              /\ scene[v][n].containerId = NoId
              /\ ~scene[v][n].meta

(***************************************************************************)
(* Properties of sequential batches (checked under SpecBatch)              *)
(***************************************************************************)

\* C19 (as claimed): of two batches committed one after the other, each
\* with an arrow whose start refers to an id the other batch creates, the
\* arrow of either batch is committed with its start reference dropped.
C19_CrossBatchEndpointsDropped ==
    [][\A batch \in CrossMenu :
          SrvBatch(batch) =>
            \A k \in 1..Len(store') :
                (store'[k].id \in IdsOf(batch) /\ store'[k].type = "arrow")
                => store'[k].start = NoId]_vars

(***************************************************************************)
(* Properties of the analyze requests (checked under SpecSubmit)           *)
(***************************************************************************)

\* The step showed the user a failure: the panel renders its error state;
\* the App's voice input has no error state.
ErrorShown(path, u) == path \in PanelPaths /\ u.error = "text"

\* The step showed the user an explanation: the panel renders its
\* explanation state, the App's chat got an entry of Claude.
ExplanationShown(path, before, u) ==
    IF path = "autoSubmitVoice"
    THEN Len(u.chat) > Len(before.chat) /\ u.chat[Len(u.chat)] = "claude"
    ELSE u.explanation = "text"

\* C22 (as claimed): when an analyze request that ran alone settles, the
\* user is shown exactly one of an explanation and an error, and the error
\* when the request failed, on every submit path.
C22_FailureSurfaced ==
    [][\A k \in 1..MaxPending, o \in Outcomes :
          (Settle(k, o) /\ ~reqs[k].overlapped) =>
            LET path == reqs[k].path
            IN  /\ Failed(o) => ErrorShown(path, ui')
                /\ ErrorShown(path, ui') # ExplanationShown(path, ui, ui')]_vars

\* The submit functions of the panel that set and clear isAnalyzing.
AnalyzingPaths == {"handleSubmit", "autoSubmit"}

\* C36 (as claimed): with only manual and voice submits of the panel
\* made, isAnalyzing is true exactly while at least one analyze request
\* is in flight.
C36_AnalyzingWhileInFlight ==
    (/\ \A k \in 1..Len(reqs) : reqs[k].path \in AnalyzingPaths
     /\ settled.path \in AnalyzingPaths \cup {"none"}
     /\ ui.chat = <<>>) =>
        (ui.isAnalyzing <=> reqs # <<>>)

(***************************************************************************)
(* Properties of the voice state (checked under SpecVoice)                 *)
(***************************************************************************)

\* The recognitions that are capturing the microphone.
Running(vo) == {i \in 1..Len(vo.recs) : vo.recs[i].state = "running"}

\* C32 (as claimed): while TTS is speaking, no speech recognition session
\* is running.
C32_NoRecognitionWhileSpeaking ==
    voice.tts = "playing" => Running(voice) = {}

\* C33 (as claimed): if listening is on while a response is spoken, then
\* later TTS has ended and a recognition session is running, or the user
\* has turned listening off.
C33_ListeningResumes ==
    (voice.listening /\ voice.tts = "playing")
        ~> (\/ ~voice.listening
            \/ voice.tts = "idle" /\ Running(voice) # {})

\* C34 (as claimed): while listening is off, no step other than the
\* user's toggling it on starts a speech recognition session.
C34_NoStartWhileOff ==
    [][(~voice.listening /\ ~voice'.listening) =>
          Running(voice') \subseteq Running(voice)]_vars

\* C35 (as claimed): when a session ends it is running again after its
\* end callback, and when it errors a restart is scheduled, if and only if
\* listening is on and TTS is not speaking at that moment.
C35_RestartUnlessTtsSpeaking ==
    [][\A i \in 1..MaxRecs :
          /\ (SessionEnds(i) \/ EndEvent(i)) =>
                (voice'.recs[i].state = "running"
                    <=> voice.listening /\ voice.tts # "playing")
          /\ SessionErrors(i) =>
                (voice'.recs[i].timer
                    <=> voice.listening /\ voice.tts # "playing")]_vars

\* C35 (amended): when a session ends it is running again after its end
\* callback, and when it errors a restart is scheduled, if and only if
\* listening is on and isSpeakingRef is not set at that moment.
C35_RestartUnlessSpeakingRef ==
    [][\A i \in 1..MaxRecs :
          /\ (SessionEnds(i) \/ EndEvent(i)) =>
                (voice'.recs[i].state = "running"
                    <=> voice.listening /\ ~voice.speakingRef)
          /\ SessionErrors(i) =>
                (voice'.recs[i].timer
                    <=> voice.listening /\ ~voice.speakingRef)]_vars

\* C35 witness: with listening on, the session a voice submit stopped has
\* ended while the request is in flight and nothing is spoken yet, and it
\* has not been restarted.
C35_Witness ==
    /\ voice.listening
    /\ voice.speakingRef
    /\ voice.tts = "idle"
    /\ voice.pending # <<>>
    /\ Len(voice.recs) = 1
    /\ voice.recs[1] = Recognition("ended", FALSE)

(***************************************************************************)
(* Properties of the transcript filter (checked under SpecAsr)             *)
(***************************************************************************)

\* The positions where a word of the transcript begins, and the word that
\* begins there.
WordStarts(t) ==
    {i \in 1..Len(t) : ~IsSpace(t[i]) /\ (i = 1 \/ IsSpace(t[i - 1]))}

WordAt(t, i) ==
    LET ends == {j \in i..Len(t) : \A k \in i..j : ~IsSpace(t[k])}
    IN  SubSeq(t, i, CHOOSE j \in ends : \A k \in ends : k <= j)

\* The words of the transcript that, in lower case, are no filler words.
MeaningfulWords(t) ==
    {i \in WordStarts(t) : toLowerCase(WordAt(t, i)) \notin FILLER_WORDS}

\* C37: a result that has been handled was auto-submitted if and only if
\* it was final and at least 2 of its words are no filler words; a result
\* that was not final was not submitted.
C37_SubmitsMeaningfulFinals ==
    asr.handled =>
        /\ asr.submitted # <<>>
              <=> (asr.isFinal /\ Cardinality(MeaningfulWords(asr.text)) >= 2)
        /\ ~asr.isFinal => asr.submitted = <<>>
        /\ asr.submitted # <<>> => asr.submitted = <<trim(asr.text)>>

\* C37 witness: a final transcript of a filler word in upper case and two
\* other words has been submitted.
C37_Witness ==
    /\ asr.handled
    /\ asr.isFinal
    /\ asr.text = <<"U", "m", " ", "x", " ", "x">>
    /\ asr.submitted = <<asr.text>>

(***************************************************************************)
(* Properties of the debounced sync (checked under SpecDebounce)           *)
(***************************************************************************)

\* The changes that end a burst: the last change so far, and every change
\* followed by none for a second.
BurstEnds ==
    {k \in 1..Len(sync.changes) :
        \/ k = Len(sync.changes)
        \/ sync.changes[k + 1].at - sync.changes[k].at >= DebounceDelay}

\* The burst ends whose timeout has run.
Completed == {k \in BurstEnds : k < Len(sync.changes) \/ sync.pending = <<>>}

SentTimes == {sync.sent[j] : j \in 1..Len(sync.sent)}

\* C29: at most one sync timeout is pending, and every burst of changes
\* (each less than a second after the one before) has caused exactly one
\* sync request, sent one second after the last change of the burst.
C29_OneSyncPerBurst ==
    /\ Len(sync.pending) <= 1
    /\ Len(sync.sent) = Cardinality(Completed)
    /\ SentTimes = {sync.changes[k].at + DebounceDelay : k \in Completed}

\* C29 witness: two changes half a second apart, then a second without a
\* change, and one sync request sent.
C29_Witness ==
    /\ Len(sync.changes) = 2
    /\ sync.changes[2].at = sync.changes[1].at + 1
    /\ sync.changes[2].api
    /\ sync.pending = <<>>
    /\ sync.sent = <<sync.changes[2].at + DebounceDelay>>

====
